---- MODULE Spec2Model ----
(***************************************************************************)
(* Verification model of the study-pook importer and its persistence       *)
(* mutations.                                                              *)
(*                                                                         *)
(* Strings are sequences of one-character strings.  A letter carrying a    *)
(* diacritic is written as its base letter followed by "~" ("a~" is an     *)
(* accented a), which is what Unicode NFD decomposition splits it into.    *)
(***************************************************************************)
EXTENDS Integers, Sequences, FiniteSets, TLC

VARIABLES
    \* ---- parseCurriculumText (scripts/import/parsePdf.ts)
    pdfLines,        \* the raw lines of the text read so far
    pdfPc,           \* "loop" while lines are consumed, "done" after the final flush
    courses,         \* the output list of courses
    currentCourse,   \* index into courses of the current course, 0 for null
    pendingTheme,    \* {number, text} or NoPending
    globalOrder,     \* next theme order
    pendingStart,    \* history: index in pdfLines of the pending theme's start line
    themeStart,      \* history: themeStart[k] = start line index of the theme with order k
    \* ---- extractNotesFromDocx (scripts/import/parseDocx.ts)
    themeLookup,     \* the ThemeLookup[] argument
    docxPc,          \* "walk" while body nodes are consumed, "done" after the walk
    nodesRead,       \* number of body nodes consumed
    currentThemeId,  \* id of the current theme, NoTheme for null
    blocksByTheme,   \* theme id -> sequence of blocks
    orderByTheme,    \* theme id -> last order handed out
    usedImageTargets,
    unmatchedHeadings,
    zipFiles,        \* the image targets the archive holds a file word/<target> for
    imageBytesByTarget, \* the returned Map, as its entries in insertion order
    lastNode,        \* history: the body node handled by the last step
    lastEmitted,     \* history: the blocks pushed by the last step, in order
    resolvedSeq,     \* history: per resolved heading, the theme id and the theme's block count then
    unmatchedSince,  \* history: an unresolved heading came after the latest resolved one
    \* ---- convex/study.ts mutations
    dbCourses,       \* set of course rows
    dbThemes,        \* set of theme rows
    dbNoteBlocks,    \* set of noteBlocks rows
    dbThemeNotes,    \* set of themeNotes rows
    dbProgressRows,  \* set of progress rows, each with the id of its theme
    nextId,          \* next database id
    dbOps,           \* number of mutations run
    lastOp,          \* history: the mutation run by the last step and its arguments
    lastReplace,     \* history: per theme id, the block list of its latest replaceThemeNoteBlocks
    \* ---- scoreNameMatch (scripts/import/utils.ts) applied to one pair of strings
    scoreA,
    scoreB,
    scoreOut,        \* the returned score as <<numerator, denominator>>, NotCalled before the call
    \* ---- the resolver of buildThemeResolver applied to one heading
    resolverThemes,  \* the ThemeLookup[] the resolver was built from
    resolverHeading,
    resolverOut,     \* index of the returned lookup, 0 for null, NotCalled before the call
    \* ---- setThemeProgress (convex/study.ts) on one theme
    themeSubthemes,  \* theme.subthemes.length of the theme
    dbProgress,      \* set of progress rows
    progressOps,     \* number of mutations run
    lastProgressArgs, \* history: the user of the last setThemeProgress, and whether its
                     \* confidence arguments were all outside 0..5
    \* ---- serializeThemeNoteFile and parseThemeNoteFile (markdownFile.ts) on one note
    noteArgs,        \* the argument of serializeThemeNoteFile
    notePc,          \* "args", then "file" after serializing, then "parsed"
    noteContent,     \* the serialized file
    noteParsed,      \* what parseThemeNoteFile returned or threw
    \* ---- usePomodoroStore (store/usePomodoroStore.ts) and the clock it reads
    pomodoro,        \* the store's state, one field per field of PomodoroStore
    clockNow,        \* Date.now(), in whole seconds
    pomOps,          \* store actions called so far
    pomAdvances,     \* times the clock was moved so far
    focusElapsed,    \* history: seconds that passed while a focus phase was running
    creditedSeconds, \* history: seconds the timer actions added to pendingStudySeconds
    lastPomAction,   \* history: the name of the store action called last
    \* ---- the study-seconds sync of PomodoroTimer.tsx and the studyTotals table
    isSyncingRef,    \* isSyncingRef.current
    syncPc,          \* the addStudySeconds request: "idle", "sent", "applied", "rejected",
                     \* "restored" (the catch handler has run, finally has not)
    syncChunk,       \* the chunk of the request, 0 without a request
    effectSeenPending, \* pendingStudySeconds when the sync effect ran last, -1 before
    studyTotals,     \* the rows of the studyTotals table
    serverBase,      \* history: what getStudyTotal returned to the user at the start
    totalsOps,       \* addStudySeconds calls made directly so far
    lastTotalsCall,  \* history: the arguments of the addStudySeconds call made last
    \* ---- run() of scripts/import-study-data.ts and the importRuns row of its key
    runPc,           \* the statement run() is at, "resolved" or "rejected" once settled
    importRun,       \* the importRuns row of the import key, NoImportRun without one
    imagesLeft,      \* image targets the upload loop has not reached yet
    noteThemesLeft,  \* themed note streams the replace loop has not reached yet
    runError,        \* the error caught by the catch block, NoError before
    runRecorded,     \* history: beginImportRun has committed
    runRejection     \* the error run() rejected with, NoError before

pdfVars == <<pdfLines, pdfPc, courses, currentCourse, pendingTheme, globalOrder,
             pendingStart, themeStart>>
docxVars == <<themeLookup, docxPc, nodesRead, currentThemeId, blocksByTheme,
              orderByTheme, usedImageTargets, unmatchedHeadings, lastNode,
              lastEmitted, resolvedSeq, unmatchedSince, zipFiles, imageBytesByTarget>>
dbVars == <<dbCourses, dbThemes, dbNoteBlocks, dbThemeNotes, dbProgressRows, nextId, dbOps, lastOp,
           lastReplace>>
scoreVars == <<scoreA, scoreB, scoreOut>>
resolverVars == <<resolverThemes, resolverHeading, resolverOut>>
progressVars == <<themeSubthemes, dbProgress, progressOps, lastProgressArgs>>
noteVars == <<noteArgs, notePc, noteContent, noteParsed>>
pomVars == <<pomodoro, clockNow, pomOps, pomAdvances, focusElapsed, creditedSeconds, lastPomAction>>
syncVars == <<isSyncingRef, syncPc, syncChunk, effectSeenPending, studyTotals, serverBase,
              totalsOps, lastTotalsCall>>
importVars == <<runPc, importRun, imagesLeft, noteThemesLeft, runError, runRecorded,
                runRejection>>
vars == <<pdfVars, docxVars, dbVars, scoreVars, resolverVars, progressVars, noteVars,
          pomVars, syncVars, importVars>>

NotCalled == <<>>

-----------------------------------------------------------------------------
(* Characters and the text utilities of scripts/import/utils.ts            *)

LowerSeq == <<"a","b","c","d","e","f","g","h","i","j","k","l","m",
              "n","o","p","q","r","s","t","u","v","w","x","y","z">>
UpperSeq == <<"A","B","C","D","E","F","G","H","I","J","K","L","M",
              "N","O","P","Q","R","S","T","U","V","W","X","Y","Z">>
DigitSeq == <<"0","1","2","3","4","5","6","7","8","9">>
AccentedSeq == <<"a~","e~","i~","l~","n~","o~","s~","t~","u~","y~","S~">>
AccentBaseSeq == <<"a","e","i","l","n","o","s","t","u","y","S">>

Range(s) == { s[i] : i \in 1..Len(s) }
IndexIn(s, c) == CHOOSE i \in 1..Len(s) : s[i] = c
IsLower(c) == c \in Range(LowerSeq)
IsUpper(c) == c \in Range(UpperSeq)
IsDigit(c) == c \in Range(DigitSeq)
IsAccented(c) == c \in Range(AccentedSeq)
\* \s of the regular expressions
IsSpace(c) == c \in {" ", "\t", "\n", "\r"}
DigitValue(c) == IndexIn(DigitSeq, c) - 1

\* .normalize('NFD').replace(/\p{Diacritic}/gu, '') on one character
StripDiacritic(c) == IF IsAccented(c) THEN AccentBaseSeq[IndexIn(AccentedSeq, c)] ELSE c
\* .toLowerCase() on one character
ToLower(c) == IF IsUpper(c) THEN LowerSeq[IndexIn(UpperSeq, c)] ELSE c

Take(s, n) == SubSeq(s, 1, IF n < Len(s) THEN n ELSE Len(s))
Drop(s, n) == SubSeq(s, n + 1, Len(s))
StartsWith(s, p) == Len(p) <= Len(s) /\ SubSeq(s, 1, Len(p)) = p

RECURSIVE DropWhileSpace(_)
DropWhileSpace(s) ==
    IF s # <<>> /\ IsSpace(Head(s)) THEN DropWhileSpace(Tail(s)) ELSE s

RECURSIVE DropTrailingSpace(_)
DropTrailingSpace(s) ==
    IF s # <<>> /\ IsSpace(s[Len(s)]) THEN DropTrailingSpace(SubSeq(s, 1, Len(s) - 1)) ELSE s

\* .trim()
Trim(s) == DropTrailingSpace(DropWhileSpace(s))

\* .replace(/\s+/g, ' ')
RECURSIVE CollapseSpace(_)
CollapseSpace(s) ==
    IF s = <<>> THEN <<>>
    ELSE IF IsSpace(Head(s)) THEN <<" ">> \o CollapseSpace(DropWhileSpace(s))
    ELSE <<Head(s)>> \o CollapseSpace(Tail(s))

cleanLine(value) == Trim(CollapseSpace(value))

\* .replace(/[^a-z0-9\s]/g, ' ') on one character
AlnumOrSpace(c) == IF IsLower(c) \/ IsDigit(c) \/ IsSpace(c) THEN c ELSE " "

normalizeText(value) ==
    Trim(CollapseSpace([i \in 1..Len(value) |->
        AlnumOrSpace(ToLower(StripDiacritic(value[i])))]))

\* .replace(/-+/g, '-')
RECURSIVE CollapseDash(_)
CollapseDash(s) ==
    IF s = <<>> THEN <<>>
    ELSE IF Head(s) = "-" /\ Len(s) > 1 /\ s[2] = "-" THEN CollapseDash(Tail(s))
    ELSE <<Head(s)>> \o CollapseDash(Tail(s))

\* .replace(/^-|-$/g, '')
TrimOneDash(s) ==
    LET a == IF s # <<>> /\ Head(s) = "-" THEN Tail(s) ELSE s
    IN  IF a # <<>> /\ a[Len(a)] = "-" THEN SubSeq(a, 1, Len(a) - 1) ELSE a

slugify(value) ==
    LET n == normalizeText(value)
        dashed == [i \in 1..Len(n) |-> IF IsSpace(n[i]) THEN "-" ELSE n[i]]
    IN  TrimOneDash(CollapseDash(dashed))

\* a.split(' ').filter(Boolean) as a set of tokens
RECURSIVE SplitOn(_, _)
SplitOn(s, sep) ==
    IF \E i \in 1..Len(s) : s[i] = sep
    THEN LET i == CHOOSE k \in 1..Len(s) : s[k] = sep /\ \A j \in 1..(k - 1) : s[j] # sep
         IN  <<SubSeq(s, 1, i - 1)>> \o SplitOn(Drop(s, i), sep)
    ELSE <<s>>

Tokens(s) == { t \in Range(SplitOn(s, " ")) : t # <<>> }

\* mutant: no shortcut for equal strings
scoreNameMatchByTokens(a, b) ==
    LET aTokens == Tokens(a)
        bTokens == Tokens(b)
    IN  IF aTokens = {} \/ bTokens = {} THEN <<0, 1>>
        ELSE <<Cardinality(aTokens \cap bTokens),
               IF Cardinality(aTokens) > Cardinality(bTokens)
               THEN Cardinality(aTokens) ELSE Cardinality(bTokens)>>

\* scoreNameMatch as the fraction <<numerator, denominator>>
scoreNameMatch(a, b) ==
    IF a = b THEN <<1, 1>>
    ELSE LET aTokens == Tokens(a)
             bTokens == Tokens(b)
         IN  IF aTokens = {} \/ bTokens = {} THEN <<0, 1>>
             ELSE <<Cardinality(aTokens \cap bTokens),
                    IF Cardinality(aTokens) > Cardinality(bTokens)
                    THEN Cardinality(aTokens) ELSE Cardinality(bTokens)>>

\* words of single letters joined by single spaces
RECURSIVE Spaced(_)
Spaced(letters) ==
    IF Len(letters) <= 1 THEN letters
    ELSE <<Head(letters)>> \o <<" ">> \o Spaced(Tail(letters))

\* normalized strings scoreNameMatch is called with
ScorePool == {
    <<>>, Spaced(<<"a">>), Spaced(<<"a", "b">>), Spaced(<<"b", "a">>), Spaced(<<"a", "a">>),
    Spaced(<<"c">>), Spaced(<<"a", "b", "c">>), Spaced(<<"c", "d">>) }

ScoreInit ==
    /\ scoreA \in ScorePool
    /\ scoreB \in ScorePool
    /\ scoreOut = NotCalled

ScoreCall ==
    /\ scoreOut = NotCalled
    /\ scoreOut' = scoreNameMatch(scoreA, scoreB)
    /\ UNCHANGED <<scoreA, scoreB>>

\* ---- properties of scoreNameMatch

ScoreBounds ==
    /\ scoreOut[2] > 0 /\ 0 <= scoreOut[1] /\ scoreOut[1] <= scoreOut[2]
    /\ scoreA = scoreB => scoreOut[1] = scoreOut[2]

\* C13 as stated: the score lies in [0, 1], is 1 for equal strings, and is 0 whenever
\* the token sets share no token.
C13_ScoreBounds ==
    scoreOut # NotCalled =>
        /\ ScoreBounds
        /\ Tokens(scoreA) \cap Tokens(scoreB) = {} => scoreOut[1] = 0

\* C13 amended: the score lies in [0, 1], is 1 for equal strings, and is 0 whenever
\* the strings differ and their token sets share no token.
C13_ScoreBoundsDistinct ==
    scoreOut # NotCalled =>
        /\ ScoreBounds
        /\ (scoreA # scoreB /\ Tokens(scoreA) \cap Tokens(scoreB) = {}) => scoreOut[1] = 0

\* the call compared two different strings: one pair without a common token, or
\* one with some but not all tokens in common
C13_Witness ==
    /\ scoreOut # NotCalled /\ scoreA # scoreB
    /\ Tokens(scoreA) # {} /\ Tokens(scoreB) # {}
    /\ \/ Tokens(scoreA) \cap Tokens(scoreB) = {} /\ scoreOut[1] = 0
       \/ 0 < scoreOut[1] /\ scoreOut[1] < scoreOut[2]

\* Number(digits), String(n)
RECURSIVE DigitsToNumber(_)
DigitsToNumber(d) ==
    IF d = <<>> THEN 0 ELSE 10 * DigitsToNumber(SubSeq(d, 1, Len(d) - 1)) + DigitValue(d[Len(d)])

RECURSIVE NumberToDigits(_)
NumberToDigits(n) ==
    IF n < 10 THEN <<DigitSeq[n + 1]>> ELSE NumberToDigits(n \div 10) \o <<DigitSeq[(n % 10) + 1]>>

-----------------------------------------------------------------------------
(* parseCurriculumText: scripts/import/parsePdf.ts                         *)

MaxLines == 4
SlugMax == 80

knownCourseTitles == <<
    <<"D", "i", "s", "k", "r", "e~", "t", "n", "a", " ", "m", "a", "t", "e", "m", "a", "t", "i", "k", "a">>,
    <<"M", "a", "t", "e", "m", "a", "t", "i", "c", "k", "a~", " ", "a", "n", "a", "l", "y~", "z", "a">>,
    <<"A", "l", "g", "e", "b", "r", "a">>,
    <<"P", "r", "a", "v", "d", "e", "p", "o", "d", "o", "b", "n", "o", "s", "t~", " ", "a", " ", "s~", "t", "a", "t", "i", "s", "t", "i", "k", "a">>,
    <<"T", "v", "o", "r", "b", "a", " ", "a", " ", "a", "n", "a", "l", "y~", "z", "a", " ", "a", "l", "g", "o", "r", "i", "t", "m", "o", "v", " ", "a", " ", "d", "a~", "t", "o", "v", "y~", "c", "h", " ", "s~", "t", "r", "u", "k", "t", "u~", "r">>,
    <<"L", "i", "n", "e", "a~", "r", "n", "e", " ", "p", "r", "o", "g", "r", "a", "m", "o", "v", "a", "n", "i", "e", " ", "a", " ", "m", "e", "t", "o~", "d", "y", " ", "v", "o", "l~", "n", "e", "j", " ", "o", "p", "t", "i", "m", "a", "l", "i", "z", "a~", "c", "i", "e">>,
    <<"D", "a", "t", "a", "b", "a~", "z", "y">>,
    <<"P", "r", "i", "n", "c", "i~", "p", "y", " ", "d", "a~", "t", "o", "v", "e", "j", " ", "v", "e", "d", "y">> >>

skipPrefixes == {
    <<"S~", "t", "a~", "t", "n", "e", " ", "s", "k", "u~", "s~", "k", "y">>,
    <<"O", "b", "s", "a", "h", "o", "v", "a~", " ", "n", "a~", "p", "l", "n~">>,
    <<"P", "o", "d", "r", "o", "b", "n", "y~", " ", "s", "y", "l", "a", "b", "u", "s">>,
    <<"P", "r", "o", "g", "r", "a", "m", "o", "v", "a", "n", "i", "e", ".">>,
    <<"Z", "a~", "k", "l", "a", "d", "y", " ", "d", "i", "s", "k", "r", "e~", "t", "n", "e", "j">>,
    <<"(", "p", "r", "e", "d", "m", "e", "t", "y">> }

shouldSkipLine(line) == line = <<>> \/ \E p \in skipPrefixes : StartsWith(line, p)

\* knownCourseTitles.find((title) => line === title)
IsCourseHeading(line) == \E i \in 1..Len(knownCourseTitles) : knownCourseTitles[i] = line

\* line.match(/^(\d+)\.\s*(.+)$/): [ok, digits, text]
RECURSIVE LeadingDigits(_)
LeadingDigits(s) ==
    IF s # <<>> /\ IsDigit(Head(s)) THEN <<Head(s)>> \o LeadingDigits(Tail(s)) ELSE <<>>

themeStartMatch(line) ==
    LET digits == LeadingDigits(line)
        afterDigits == Drop(line, Len(digits))
        rest == IF afterDigits = <<>> THEN <<>> ELSE Tail(afterDigits)
        stripped == DropWhileSpace(rest)
        noMatch == [ok |-> FALSE, digits |-> <<>>, text |-> <<>>]
    IN  IF digits = <<>> \/ afterDigits = <<>> \/ Head(afterDigits) # "." THEN noMatch
        ELSE IF stripped # <<>> THEN [ok |-> TRUE, digits |-> digits, text |-> stripped]
        \* \s* gives its last character back to .+
        ELSE IF rest # <<>> THEN [ok |-> TRUE, digits |-> digits, text |-> <<rest[Len(rest)]>>]
        ELSE noMatch

\* compactRaw.match(/^(.*?)(?:\[(.*)\]|\((.*)\))\s*$/): [ok, title part, annotation]
annotationMatch(s) ==
    LET t == DropTrailingSpace(s)
        Opens(i) == i < Len(t) /\ \/ (t[i] = "[" /\ t[Len(t)] = "]")
                                   \/ (t[i] = "(" /\ t[Len(t)] = ")")
    IN  IF \E i \in 1..Len(t) : Opens(i)
        THEN LET i == CHOOSE k \in 1..Len(t) : Opens(k) /\ \A j \in 1..(k - 1) : ~Opens(j)
             IN  [ok |-> TRUE, head |-> SubSeq(t, 1, i - 1), inner |-> SubSeq(t, i + 1, Len(t) - 1)]
        ELSE [ok |-> FALSE, head |-> s, inner |-> <<>>]

\* .replace(/[-–]\s*$/, ''); the en dash is written "ndash"
StripTrailingDash(s) ==
    LET t == DropTrailingSpace(s)
    IN  IF t # <<>> /\ t[Len(t)] \in {"-", "ndash"} THEN SubSeq(t, 1, Len(t) - 1) ELSE s

\* subthemeText.split(',').map(cleanLine).filter(Boolean)
RECURSIVE DropEmpty(_)
DropEmpty(ss) ==
    IF ss = <<>> THEN <<>>
    ELSE IF Head(ss) = <<>> THEN DropEmpty(Tail(ss))
    ELSE <<Head(ss)>> \o DropEmpty(Tail(ss))

SplitSubthemes(text) ==
    LET parts == SplitOn(text, ",")
    IN  DropEmpty([i \in 1..Len(parts) |-> cleanLine(parts[i])])

ThemeSlug(courseSlug, number, baseSlug) ==
    courseSlug \o <<"-">> \o NumberToDigits(number) \o <<"-">> \o baseSlug

parseTheme(raw, number, courseSlug, order) ==
    LET compactRaw == cleanLine(raw)
        match == annotationMatch(compactRaw)
        title == cleanLine(StripTrailingDash(IF match.ok THEN match.head ELSE compactRaw))
        subthemeText == IF match.ok THEN match.inner ELSE <<>>
        baseSlug == Take(slugify(title), SlugMax)
    IN  [slug |-> ThemeSlug(courseSlug, number, baseSlug),
         normalizedTitle |-> normalizeText(title),
         number |-> number,
         title |-> title,
         subthemes |-> SplitSubthemes(subthemeText),
         sourceText |-> compactRaw,
         order |-> order]

NoPending == [number |-> -1, text |-> <<>>]

\* the order flushTheme gives the theme it pushes, and the counter after it
FlushOrder(order) == order
\* mutant: the counter is not advanced
NextGlobalOrderStuck(order) == order
NextGlobalOrder(order) == order + 1

\* flushTheme(): the courses, pending theme and counter after it
flushTheme(cs, cur, pend, order) ==
    IF cur = 0 \/ pend = NoPending
    THEN [courses |-> cs, pendingTheme |-> pend, globalOrder |-> order, pushed |-> FALSE]
    ELSE [courses |-> [cs EXCEPT ![cur].themes =
                          Append(@, parseTheme(pend.text, pend.number, cs[cur].slug, FlushOrder(order)))],
          pendingTheme |-> NoPending,
          globalOrder |-> NextGlobalOrder(order),
          pushed |-> TRUE]

\* raw input lines the text is made of
LinePool == {
    <<" ", "A", "l", "g", "e", "b", "r", "a", " ">>,
    <<"D", "a", "t", "a", "b", "a~", "z", "y">>,
    <<"1", ".", " ", "a", "b">>,
    <<"1", ".", " ", " ", "A", "b", " ", "[", "c", ",", " ", "d", ",">>,
    <<"e", "]">>,
    <<"1", "2", ".", "b", " ", "-", " ", "(", "c", ")">>,
    <<"(", "p", "r", "e", "d", "m", "e", "t", "y", " ", "x">> }

PdfInit ==
    /\ pdfLines = <<>>
    /\ pdfPc = "loop"
    /\ courses = <<>>
    /\ currentCourse = 0
    /\ pendingTheme = NoPending
    /\ globalOrder = 1
    /\ pendingStart = 0
    /\ themeStart = <<>>

\* .filter((line) => !shouldSkipLine(line)) drops the line
PdfSkipLine(raw) ==
    /\ pdfPc = "loop" /\ Len(pdfLines) < MaxLines
    /\ shouldSkipLine(cleanLine(raw))
    /\ pdfLines' = Append(pdfLines, raw)
    /\ UNCHANGED <<pdfPc, courses, currentCourse, pendingTheme, globalOrder,
                   pendingStart, themeStart>>

PdfCourseHeading(raw) ==
    LET line == cleanLine(raw)
        f == flushTheme(courses, currentCourse, pendingTheme, globalOrder)
    IN  /\ pdfPc = "loop" /\ Len(pdfLines) < MaxLines
        /\ ~shouldSkipLine(line)
        /\ IsCourseHeading(line)
        /\ pdfLines' = Append(pdfLines, raw)
        /\ courses' = Append(f.courses,
                             [slug |-> slugify(line), title |-> line,
                              order |-> Len(f.courses) + 1, themes |-> <<>>])
        /\ currentCourse' = Len(f.courses) + 1
        /\ pendingTheme' = f.pendingTheme
        /\ globalOrder' = f.globalOrder
        /\ themeStart' = IF f.pushed THEN Append(themeStart, pendingStart) ELSE themeStart
        /\ UNCHANGED <<pdfPc, pendingStart>>

PdfThemeStart(raw) ==
    LET line == cleanLine(raw)
        m == themeStartMatch(line)
        f == flushTheme(courses, currentCourse, pendingTheme, globalOrder)
    IN  /\ pdfPc = "loop" /\ Len(pdfLines) < MaxLines
        /\ ~shouldSkipLine(line)
        /\ ~IsCourseHeading(line)
        /\ m.ok
        /\ pdfLines' = Append(pdfLines, raw)
        /\ courses' = f.courses
        /\ globalOrder' = f.globalOrder
        /\ pendingTheme' = [number |-> DigitsToNumber(m.digits), text |-> m.text]
        /\ themeStart' = IF f.pushed THEN Append(themeStart, pendingStart) ELSE themeStart
        /\ pendingStart' = Len(pdfLines) + 1
        /\ UNCHANGED <<pdfPc, currentCourse>>

\* mutant: the wrapped line replaces the pending text
AppendLineReplace(text, line) == line

\* `${pendingTheme.text} ${line}`
AppendLine(text, line) == text \o <<" ">> \o line

PdfContinuation(raw) ==
    LET line == cleanLine(raw)
    IN  /\ pdfPc = "loop" /\ Len(pdfLines) < MaxLines
        /\ ~shouldSkipLine(line)
        /\ ~IsCourseHeading(line)
        /\ ~themeStartMatch(line).ok
        /\ pdfLines' = Append(pdfLines, raw)
        /\ pendingTheme' = IF pendingTheme # NoPending
                           THEN [pendingTheme EXCEPT !.text = AppendLine(@, line)]
                           ELSE pendingTheme
        /\ UNCHANGED <<pdfPc, courses, currentCourse, globalOrder, pendingStart, themeStart>>

\* the flushTheme() after the loop, and the return
PdfEnd ==
    LET f == flushTheme(courses, currentCourse, pendingTheme, globalOrder)
    IN  /\ pdfPc = "loop"
        /\ pdfPc' = "done"
        /\ courses' = f.courses
        /\ pendingTheme' = f.pendingTheme
        /\ globalOrder' = f.globalOrder
        /\ themeStart' = IF f.pushed THEN Append(themeStart, pendingStart) ELSE themeStart
        /\ UNCHANGED <<pdfLines, currentCourse, pendingStart>>

\* ---- properties of parseCurriculumText

\* the output themes in reading order: courses in list order, each course's themes in list order
RECURSIVE FlatThemes(_)
FlatThemes(cs) == IF cs = <<>> THEN <<>> ELSE Head(cs).themes \o FlatThemes(Tail(cs))

IsHeadingLine(raw) == ~shouldSkipLine(cleanLine(raw)) /\ IsCourseHeading(cleanLine(raw))

\* number of course heading lines among the first n input lines
HeadingCount(n) == Cardinality({ i \in 1..n : IsHeadingLine(pdfLines[i]) })

\* C4: every output theme sits in the course opened by the nearest course heading
\* before the theme's numbered start line; a numbered line before every course
\* heading yields no theme.
C4_ThemeInNearestCourse ==
    \A c \in 1..Len(courses) : \A k \in 1..Len(courses[c].themes) :
        HeadingCount(themeStart[courses[c].themes[k].order]) = c

\* the cleaned wrapped lines that follow line s up to the next numbered line, course
\* heading or end of input; boilerplate lines are dropped before the loop
RECURSIVE SpanLines(_)
SpanLines(s) ==
    IF s >= Len(pdfLines) THEN <<>>
    ELSE LET line == cleanLine(pdfLines[s + 1])
         IN  IF shouldSkipLine(line) THEN SpanLines(s + 1)
             ELSE IF IsCourseHeading(line) \/ themeStartMatch(line).ok THEN <<>>
             ELSE <<line>> \o SpanLines(s + 1)

RECURSIVE JoinSpaced(_)
JoinSpaced(items) ==
    IF Len(items) = 1 THEN items[1]
    ELSE items[1] \o <<" ">> \o JoinSpaced(Tail(items))

\* the text of the theme started at line s with its wrapped lines
ExpectedText(s) ==
    JoinSpaced(<<themeStartMatch(cleanLine(pdfLines[s])).text>> \o SpanLines(s))

IsPrefix(p, t) == Len(p) <= Len(t) /\ \A i \in 1..Len(p) : t[i] = p[i]

C5_OrdersIncrease ==
    LET flat == FlatThemes(courses)
    IN  /\ \A i \in 1..Len(flat) : flat[i].order = i
        /\ globalOrder = Len(flat) + 1

C5_Witness ==
    /\ pdfPc = "done"
    /\ Len(courses) >= 2
    /\ Len(courses[1].themes) >= 1
    /\ Len(courses[2].themes) >= 1

\* C6: the slugs of all output themes are pairwise distinct.
C6_SlugsDistinct ==
    LET flat == FlatThemes(courses)
    IN  \A i, j \in 1..Len(flat) : i # j => flat[i].slug # flat[j].slug

-----------------------------------------------------------------------------
(* extractNotesFromDocx: scripts/import/parseDocx.ts.  A body node is      *)
(* taken after tokenization: a paragraph carries its style, its list level *)
(* (-1 for null) and its tokens; a table carries its text fragments.       *)

MaxNodes == 4
FuzzyThresholdPct == 55
PadWidth == 4

NoTheme == "none"

\* items.join(sep)
RECURSIVE Join(_, _)
Join(items, sep) ==
    IF items = <<>> THEN <<>>
    ELSE IF Len(items) = 1 THEN Head(items)
    ELSE Head(items) \o sep \o Join(Tail(items), sep)

RECURSIVE SelectSeqTokens(_, _)
SelectSeqTokens(tokens, kind) ==
    IF tokens = <<>> THEN <<>>
    ELSE IF Head(tokens).kind = kind THEN <<Head(tokens)>> \o SelectSeqTokens(Tail(tokens), kind)
    ELSE SelectSeqTokens(Tail(tokens), kind)

normalizeInlineText(value) == Trim(CollapseSpace(value))

\* mutant: a token never joins the previous segment
SameStyleNever(segments, bold) == FALSE
\* previous && previousBold === bold
SameStyleAsPrevious(segments, bold) ==
    segments # <<>> /\ segments[Len(segments)].bold = bold

pushRichSegment(segments, value, bold) ==
    LET normalized == normalizeInlineText(value)
    IN  IF normalized = <<>> THEN segments
        ELSE IF SameStyleAsPrevious(segments, bold)
        THEN [segments EXCEPT ![Len(segments)].text = @ \o <<" ">> \o normalized]
        ELSE Append(segments, [text |-> normalized, bold |-> bold])

\* heading.replace(/^\d+\.\s*/, '')
StripOrdinal(heading) ==
    LET digits == LeadingDigits(heading)
        afterDigits == Drop(heading, Len(digits))
    IN  IF digits # <<>> /\ afterDigits # <<>> /\ Head(afterDigits) = "."
        THEN DropWhileSpace(Tail(afterDigits))
        ELSE heading

\* theme.normalizedTitle of normalizedThemes
LookupNormalizedTitle(theme) ==
    normalizeText(IF theme.normalizedTitle # <<>> THEN theme.normalizedTitle ELSE theme.title)

\* mutant: no exact lookup, the fuzzy match decides alone
ExactIndexNone(themes, normalizedHeading) == 0

\* byExact.get(normalizedHeading): the Map keeps the last entry of a key; 0 for undefined
ExactIndex(themes, normalizedHeading) ==
    LET hits == { i \in 1..Len(themes) : LookupNormalizedTitle(themes[i]) = normalizedHeading }
    IN  IF hits = {} THEN 0 ELSE CHOOSE i \in hits : \A j \in hits : j <= i

ScoreLess(x, y) == x[1] * y[2] < y[1] * x[2]
\* mutant: a score equal to the threshold is rejected too
BelowThresholdInclusive(score) == score[1] * 100 <= FuzzyThresholdPct * score[2]
\* best.score < 0.55
BelowThreshold(score) == score[1] * 100 < FuzzyThresholdPct * score[2]

\* .map(score).sort((a, b) => b.score - a.score)[0]: the sort is stable; 0 for undefined
BestIndex(themes, normalizedHeading) ==
    LET score(i) == scoreNameMatch(LookupNormalizedTitle(themes[i]), normalizedHeading)
    IN  IF themes = <<>> THEN 0
        ELSE CHOOSE i \in 1..Len(themes) :
                /\ \A j \in 1..Len(themes) : ~ScoreLess(score(i), score(j))
                /\ \A j \in 1..(i - 1) : ScoreLess(score(j), score(i))

\* the resolver built by buildThemeResolver(themes): index of the theme returned, 0 for null
resolveTheme(themes, heading) ==
    LET normalizedHeading == normalizeText(StripOrdinal(heading))
        exact == ExactIndex(themes, normalizedHeading)
        best == BestIndex(themes, normalizedHeading)
    IN  IF exact # 0 THEN exact
        ELSE IF best = 0
                \/ BelowThreshold(scoreNameMatch(LookupNormalizedTitle(themes[best]),
                                                 normalizedHeading))
        THEN 0
        ELSE best

KindChars(kind) ==
    CASE kind = "text" -> <<"t", "e", "x", "t">>
      [] kind = "image" -> <<"i", "m", "a", "g", "e">>
      [] kind = "table" -> <<"t", "a", "b", "l", "e">>

\* String(n).padStart(4, '0')
RECURSIVE PadStart(_, _)
PadStart(s, width) == IF Len(s) >= width THEN s ELSE PadStart(<<"0">> \o s, width)

\* orderByTheme.get(themeId) ?? 0) + 1
NextOrder(orderMap, themeId) == orderMap[themeId] + 1

\* mutant: the counter is read but never written back
SetOrderDropped(orderMap, themeId, nextOrder) == orderMap
\* orderByTheme.set(themeId, nextOrder)
SetOrder(orderMap, themeId, nextOrder) == [orderMap EXCEPT ![themeId] = nextOrder]

ExternalKey(nextOrder, kind, tokenBase) ==
    PadStart(NumberToDigits(nextOrder), PadWidth) \o <<"-">> \o KindChars(kind) \o <<"-">>
        \o Take(slugify(tokenBase), SlugMax)

\* the block createBlock returns
createBlock(themeId, orderMap, block) ==
    LET nextOrder == NextOrder(orderMap, themeId)
        tokenBase == IF block.text # <<>> THEN block.text
                     ELSE IF block.sourceImageName # <<>> THEN block.sourceImageName
                     ELSE KindChars(block.kind) \o <<"-">> \o NumberToDigits(nextOrder)
    IN  [kind |-> block.kind, text |-> block.text, textRole |-> block.textRole,
         listLevel |-> block.listLevel, richTextJson |-> block.richTextJson,
         sourceImageName |-> block.sourceImageName, imageTarget |-> block.imageTarget,
         order |-> nextOrder,
         externalKey |-> ExternalKey(nextOrder, block.kind, tokenBase)]

\* The walk's accumulators: st.blocks is blocksByTheme (an absent key is <<>>),
\* st.order is orderByTheme (an absent key is 0), st.buffer is richTextBuffer,
\* st.used is usedImageTargets, st.emitted lists the blocks pushed in this step.
pushBlock(st, themeId, block) ==
    LET created == createBlock(themeId, st.order, block)
    IN  [st EXCEPT !.blocks[themeId] = Append(@, created),
                   !.order = SetOrder(@, themeId, created.order),
                   !.emitted = Append(@, [themeId |-> themeId, block |-> created])]

NoBlockFields ==
    [kind |-> "", text |-> <<>>, textRole |-> "", listLevel |-> -1, richTextJson |-> <<>>,
     sourceImageName |-> <<>>, imageTarget |-> <<>>]

\* mutant: a bold first segment makes a subheading at every list level
TextRoleAnyLevel(listLevel, buffer) ==
    LET nonEmpty == { i \in 1..Len(buffer) : Trim(buffer[i].text) # <<>> }
        leadingBold == nonEmpty # {} /\ buffer[CHOOSE i \in nonEmpty : \A j \in nonEmpty : i <= j].bold
    IN  IF listLevel = -1 THEN "paragraph"
        ELSE IF leadingBold THEN "subheading"
        ELSE "list_item"

\* const textRole = listLevel === null ? ... : listLevel === 0 && leadingSegment?.bold ? ...
TextRole(listLevel, buffer) ==
    LET nonEmpty == { i \in 1..Len(buffer) : Trim(buffer[i].text) # <<>> }
        leadingBold == nonEmpty # {} /\ buffer[CHOOSE i \in nonEmpty : \A j \in nonEmpty : i <= j].bold
    IN  IF listLevel = -1 THEN "paragraph"
        ELSE IF listLevel = 0 /\ leadingBold THEN "subheading"
        ELSE "list_item"

flushText(st, themeId, listLevel) ==
    LET value == cleanLine(Join([i \in 1..Len(st.buffer) |-> st.buffer[i].text], <<" ">>))
    IN  IF st.buffer = <<>> THEN st
        ELSE IF value = <<>> THEN [st EXCEPT !.buffer = <<>>]
        ELSE [pushBlock(st, themeId,
                  [NoBlockFields EXCEPT !.kind = "text", !.text = value,
                                        !.textRole = TextRole(listLevel, st.buffer),
                                        !.listLevel = listLevel,
                                        !.richTextJson = st.buffer])
              EXCEPT !.buffer = <<>>]

\* mutant: the target of an emitted image is not recorded
AddUsedNever(used, target) == used

\* usedImageTargets.add(token.imageTarget)
AddUsed(used, target) == used \cup {target}

\* mutant: an image does not flush the text buffered before it
RECURSIVE TokenLoopNoFlush(_, _, _, _)
TokenLoopNoFlush(st, tokens, themeId, listLevel) ==
    IF tokens = <<>> THEN st
    ELSE LET token == Head(tokens)
         IN  IF token.kind = "text"
             THEN TokenLoopNoFlush([st EXCEPT !.buffer = pushRichSegment(@, token.value, token.bold)],
                                   Tail(tokens), themeId, listLevel)
             ELSE LET pushed == pushBlock(st, themeId,
                                    [NoBlockFields EXCEPT !.kind = "image",
                                                          !.sourceImageName = token.sourceImageName,
                                                          !.imageTarget = token.imageTarget])
                  IN  TokenLoopNoFlush([pushed EXCEPT !.used = AddUsed(@, token.imageTarget)],
                                       Tail(tokens), themeId, listLevel)

\* for (const token of tokens) { ... }
RECURSIVE TokenLoop(_, _, _, _)
TokenLoop(st, tokens, themeId, listLevel) ==
    IF tokens = <<>> THEN st
    ELSE LET token == Head(tokens)
         IN  IF token.kind = "text"
             THEN TokenLoop([st EXCEPT !.buffer = pushRichSegment(@, token.value, token.bold)],
                            Tail(tokens), themeId, listLevel)
             ELSE LET flushed == flushText(st, themeId, listLevel)
                      pushed == pushBlock(flushed, themeId,
                                    [NoBlockFields EXCEPT !.kind = "image",
                                                          !.sourceImageName = token.sourceImageName,
                                                          !.imageTarget = token.imageTarget])
                  IN  TokenLoop([pushed EXCEPT !.used = AddUsed(@, token.imageTarget)],
                                Tail(tokens), themeId, listLevel)

\* headingText of a paragraph
HeadingText(node) ==
    LET texts == SelectSeqTokens(node.tokens, "text")
    IN  cleanLine(Join([i \in 1..Len(texts) |-> texts[i].value], <<" ">>))

\* collectTextFragments(table).map(cleanLine).filter(Boolean).join('\n')
TableText(node) ==
    Join(DropEmpty([i \in 1..Len(node.fragments) |-> cleanLine(node.fragments[i])]), <<"\n">>)

\* ---- inputs of the walk

ThemeIds == {"t1", "t2", "t3"}

Lookup(id, title, normalizedTitle) ==
    [id |-> id, slug |-> slugify(title), title |-> title, normalizedTitle |-> normalizedTitle]

LookupConfigs == {
    << Lookup("t1", <<"A", " ", "b">>, <<"a", " ", "b">>),
       Lookup("t2", <<"B", " ", "a~">>, <<>>),
       Lookup("t3", <<"c", " ", "d">>, <<"c", " ", "d">>) >>,
    << Lookup("t1", <<"a", " ", "b", " ", "c">>, <<"a", " ", "b", " ", "c">>),
       Lookup("t2", <<"a", " ", "b", " ", "x", " ", "y">>, <<"a", " ", "b", " ", "x", " ", "y">>) >> }

\* ---- the resolver on its own: one call of the function buildThemeResolver returns

Letters20 ==
    <<"a", "b", "c", "d", "e", "f", "g", "h", "i", "j",
      "k", "l", "m", "n", "o", "p", "q", "r", "s", "t">>

PlainLookup(id, title) == Lookup(id, title, title)

ResolverThemesPool == LookupConfigs \cup {
    <<>>,
    << PlainLookup("t1", Spaced(<<"a", "b">>)), PlainLookup("t2", Spaced(<<"a", "b">>)) >>,
    << PlainLookup("t1", Spaced(<<"a", "b", "c">>)), PlainLookup("t2", Spaced(<<"a", "b", "d">>)) >>,
    << PlainLookup("t1", Spaced(<<"a", "b", "c", "d">>)), PlainLookup("t2", Spaced(<<"a", "b">>)) >>,
    << PlainLookup("t1", Spaced(Letters20)) >>,
    << PlainLookup("t1", Spaced(<<"x", "y">>)),
       PlainLookup("t2", Spaced(<<"a", "b", "x", "y">>)),
       Lookup("t3", <<"B", "!", " ", "a~">>, <<>>) >> }

ResolverHeadingPool == {
    Spaced(<<"a", "b">>),
    <<"1", ".", " ">> \o Spaced(<<"a", "b">>),
    Spaced(<<"b", "a">>),
    Spaced(<<"a">>),
    Spaced(<<"a", "b", "c", "d", "e">>),
    Spaced(Take(Letters20, 11)),
    Spaced(Take(Letters20, 10)),
    Spaced(<<"x">>),
    <<"A~", " ", "b", "!">>,
    Spaced(<<"z">>),
    <<>> }

ResolverInit ==
    /\ resolverThemes \in ResolverThemesPool
    /\ resolverHeading \in ResolverHeadingPool
    /\ resolverOut = NotCalled

ResolveCall ==
    /\ resolverOut = NotCalled
    /\ resolverOut' = <<resolveTheme(resolverThemes, resolverHeading)>>
    /\ UNCHANGED <<resolverThemes, resolverHeading>>

\* ---- properties of the resolver

ResolverCalled == resolverOut # NotCalled
ResolverScore(i) ==
    scoreNameMatch(normalizeText(IF resolverThemes[i].normalizedTitle # <<>>
                                 THEN resolverThemes[i].normalizedTitle
                                 ELSE resolverThemes[i].title),
                   normalizeText(StripOrdinal(resolverHeading)))
ResolverExactHits ==
    { i \in 1..Len(resolverThemes) :
        normalizeText(IF resolverThemes[i].normalizedTitle # <<>>
                      THEN resolverThemes[i].normalizedTitle
                      ELSE resolverThemes[i].title)
            = normalizeText(StripOrdinal(resolverHeading)) }
ResolverMaximal ==
    { i \in 1..Len(resolverThemes) :
        \A j \in 1..Len(resolverThemes) :
            ResolverScore(j)[1] * ResolverScore(i)[2] <= ResolverScore(i)[1] * ResolverScore(j)[2] }
ScoreAtLeastThreshold(score) == score[1] * 100 >= FuzzyThresholdPct * score[2]

\* C16: when no lookup's normalized title equals the normalized heading, the resolver
\* returns no match exactly when there are no lookups or every score is below 0.55;
\* otherwise it returns a lookup whose score is the maximum, a score of exactly 0.55
\* included.
C16_FuzzyThreshold ==
    (ResolverCalled /\ ResolverExactHits = {}) =>
        /\ resolverOut[1] = 0 <=>
              \A i \in 1..Len(resolverThemes) : ~ScoreAtLeastThreshold(ResolverScore(i))
        /\ resolverOut[1] # 0 => resolverOut[1] \in ResolverMaximal

\* a heading of 11 of the 20 words of the only title scores exactly 0.55 and is matched
C16_Witness ==
    /\ ResolverCalled /\ ResolverExactHits = {}
    /\ resolverOut[1] # 0
    /\ ResolverScore(resolverOut[1])[1] * 100 = FuzzyThresholdPct * ResolverScore(resolverOut[1])[2]

\* C17: when several lookups attain the maximal score for a heading, lookups whose
\* normalized title is the normalized heading included, the resolver returns the first
\* of them in array order.
C17_FirstMaximalWins ==
    (ResolverCalled /\ resolverOut[1] # 0) =>
        /\ resolverOut[1] \in ResolverMaximal
        /\ \A j \in ResolverMaximal : resolverOut[1] <= j

\* path.basename(target)
RECURSIVE Basename(_)
Basename(path) ==
    IF \E i \in 1..Len(path) : path[i] = "/"
    THEN Basename(Drop(path, CHOOSE i \in 1..Len(path) : path[i] = "/" /\ \A j \in 1..(i - 1) : path[j] # "/"))
    ELSE path

TextToken(value, bold) ==
    [kind |-> "text", value |-> value, bold |-> bold, sourceImageName |-> <<>>, imageTarget |-> <<>>]
ImageToken(target) ==
    [kind |-> "image", value |-> <<>>, bold |-> FALSE, sourceImageName |-> Basename(target),
     imageTarget |-> target]

Paragraph(style, listLevel, tokens) ==
    [type |-> "p", style |-> style, listLevel |-> listLevel, tokens |-> tokens, fragments |-> <<>>]
Table(fragments) ==
    [type |-> "tbl", style |-> "", listLevel |-> -1, tokens |-> <<>>, fragments |-> fragments]
NoNode == [type |-> "", style |-> "", listLevel |-> -1, tokens |-> <<>>, fragments |-> <<>>]

ImageOne == <<"m", "e", "d", "i", "a", "/", "i", "1">>

NodePool == {
    Paragraph("Heading2", -1, << TextToken(<<"1", ".", " ", "A~", " ", "b">>, FALSE),
                                 ImageToken(ImageOne) >>),
    Paragraph("Heading2", -1, << TextToken(<<"b">>, FALSE), TextToken(<<"a">>, TRUE) >>),
    Paragraph("Heading2", -1, << ImageToken(ImageOne), TextToken(<<"x", " ", "y">>, FALSE) >>),
    Paragraph("Normal", -1, << TextToken(<<"a">>, TRUE), TextToken(<<"b">>, TRUE),
                               TextToken(<<"c">>, FALSE) >>),
    Paragraph("ListParagraph", 0, << TextToken(<<"a">>, TRUE), ImageToken(ImageOne),
                                     TextToken(<<"b">>, FALSE), TextToken(<<"c">>, FALSE) >>),
    Paragraph("ListParagraph", 1, << ImageToken(ImageOne), TextToken(<<"d">>, TRUE) >>),
    Table(<< <<" ", "a">>, <<" ">>, <<"b", " ", " ", "c">> >>) }

\* archives: one without the media file, one with it
ZipPool == { {}, {ImageOne} }

\* mutant: the walk starts inside the first theme
DocxInitFirstTheme ==
    /\ themeLookup \in LookupConfigs
    /\ docxPc = "walk"
    /\ nodesRead = 0
    /\ currentThemeId = themeLookup[1].id
    /\ blocksByTheme = [t \in ThemeIds |-> <<>>]
    /\ orderByTheme = [t \in ThemeIds |-> 0]
    /\ usedImageTargets = {}
    /\ unmatchedHeadings = <<>>
    /\ lastNode = NoNode
    /\ lastEmitted = <<>>
    /\ resolvedSeq = <<>>
    /\ unmatchedSince = FALSE
    /\ zipFiles \in ZipPool
    /\ imageBytesByTarget = <<>>

\* let currentThemeId: string | null = null, and the empty maps
DocxInit ==
    /\ themeLookup \in LookupConfigs
    /\ docxPc = "walk"
    /\ nodesRead = 0
    /\ currentThemeId = NoTheme
    /\ blocksByTheme = [t \in ThemeIds |-> <<>>]
    /\ orderByTheme = [t \in ThemeIds |-> 0]
    /\ usedImageTargets = {}
    /\ unmatchedHeadings = <<>>
    /\ lastNode = NoNode
    /\ lastEmitted = <<>>
    /\ resolvedSeq = <<>>
    /\ unmatchedSince = FALSE
    /\ zipFiles \in ZipPool
    /\ imageBytesByTarget = <<>>

\* mutant: a heading paragraph that holds an image is walked as content
IsHeadingWithoutImage(node) ==
    /\ node.type = "p" /\ node.style = "Heading2" /\ HeadingText(node) # <<>>
    /\ \A i \in 1..Len(node.tokens) : node.tokens[i].kind = "text"
\* paragraphStyle === 'Heading2' && headingText
IsHeading(node) == node.type = "p" /\ node.style = "Heading2" /\ HeadingText(node) # <<>>

\* if (matchedTheme) { currentThemeId = matchedTheme.id }
DocxHeadingMatched(node) ==
    LET matched == resolveTheme(themeLookup, HeadingText(node))
    IN  /\ docxPc = "walk" /\ nodesRead < MaxNodes
        /\ IsHeading(node)
        /\ matched # 0
        /\ currentThemeId' = themeLookup[matched].id
        /\ resolvedSeq' = Append(resolvedSeq,
                                 [id |-> themeLookup[matched].id,
                                  blocksThen |-> Len(blocksByTheme[themeLookup[matched].id])])
        /\ unmatchedSince' = FALSE
        /\ nodesRead' = nodesRead + 1
        /\ lastNode' = node
        /\ lastEmitted' = <<>>
        /\ UNCHANGED <<themeLookup, docxPc, blocksByTheme, orderByTheme, usedImageTargets,
                       unmatchedHeadings>>
        /\ UNCHANGED <<zipFiles, imageBytesByTarget>>

\* mutant: an unresolved heading clears the current theme
DocxHeadingUnmatchedReset(node) ==
    /\ docxPc = "walk" /\ nodesRead < MaxNodes
    /\ IsHeading(node)
    /\ resolveTheme(themeLookup, HeadingText(node)) = 0
    /\ unmatchedHeadings' = Append(unmatchedHeadings, HeadingText(node))
    /\ currentThemeId' = NoTheme
    /\ unmatchedSince' = TRUE
    /\ nodesRead' = nodesRead + 1
    /\ lastNode' = node
    /\ lastEmitted' = <<>>
    /\ UNCHANGED <<themeLookup, docxPc, blocksByTheme, orderByTheme, usedImageTargets,
                   resolvedSeq>>
    /\ UNCHANGED <<zipFiles, imageBytesByTarget>>

\* else { unmatchedHeadings.push(headingText) }
DocxHeadingUnmatched(node) ==
    /\ docxPc = "walk" /\ nodesRead < MaxNodes
    /\ IsHeading(node)
    /\ resolveTheme(themeLookup, HeadingText(node)) = 0
    /\ unmatchedHeadings' = Append(unmatchedHeadings, HeadingText(node))
    /\ currentThemeId' = currentThemeId
    /\ unmatchedSince' = TRUE
    /\ nodesRead' = nodesRead + 1
    /\ lastNode' = node
    /\ lastEmitted' = <<>>
    /\ UNCHANGED <<themeLookup, docxPc, blocksByTheme, orderByTheme, usedImageTargets,
                   resolvedSeq>>
    /\ UNCHANGED <<zipFiles, imageBytesByTarget>>

\* if (!currentThemeId || tokens.length === 0) { continue }
DocxSkipParagraph(node) ==
    /\ docxPc = "walk" /\ nodesRead < MaxNodes
    /\ node.type = "p" /\ ~IsHeading(node)
    /\ currentThemeId = NoTheme \/ node.tokens = <<>>
    /\ nodesRead' = nodesRead + 1
    /\ lastNode' = node
    /\ lastEmitted' = <<>>
    /\ UNCHANGED <<themeLookup, docxPc, currentThemeId, blocksByTheme, orderByTheme,
                   usedImageTargets, unmatchedHeadings, resolvedSeq, unmatchedSince>>
    /\ UNCHANGED <<zipFiles, imageBytesByTarget>>

\* the token loop of a paragraph and the flushText() after it
DocxParagraph(node) ==
    LET start == [blocks |-> blocksByTheme, order |-> orderByTheme, buffer |-> <<>>,
                  used |-> usedImageTargets, emitted |-> <<>>]
        end == flushText(TokenLoop(start, node.tokens, currentThemeId, node.listLevel),
                         currentThemeId, node.listLevel)
    IN  /\ docxPc = "walk" /\ nodesRead < MaxNodes
        /\ node.type = "p" /\ ~IsHeading(node)
        /\ currentThemeId # NoTheme /\ node.tokens # <<>>
        /\ blocksByTheme' = end.blocks
        /\ orderByTheme' = end.order
        /\ usedImageTargets' = end.used
        /\ nodesRead' = nodesRead + 1
        /\ lastNode' = node
        /\ lastEmitted' = end.emitted
        /\ UNCHANGED <<themeLookup, docxPc, currentThemeId, unmatchedHeadings, resolvedSeq,
                       unmatchedSince>>
        /\ UNCHANGED <<zipFiles, imageBytesByTarget>>

\* if (table && currentThemeId) { ... if (tableText) pushBlock(...) }
DocxTable(node) ==
    LET start == [blocks |-> blocksByTheme, order |-> orderByTheme, buffer |-> <<>>,
                  used |-> usedImageTargets, emitted |-> <<>>]
        end == IF currentThemeId # NoTheme /\ TableText(node) # <<>>
               THEN pushBlock(start, currentThemeId,
                              [NoBlockFields EXCEPT !.kind = "table", !.text = TableText(node)])
               ELSE start
    IN  /\ docxPc = "walk" /\ nodesRead < MaxNodes
        /\ node.type = "tbl"
        /\ blocksByTheme' = end.blocks
        /\ orderByTheme' = end.order
        /\ nodesRead' = nodesRead + 1
        /\ lastNode' = node
        /\ lastEmitted' = end.emitted
        /\ UNCHANGED <<themeLookup, docxPc, currentThemeId, usedImageTargets,
                       unmatchedHeadings, resolvedSeq, unmatchedSince>>
        /\ UNCHANGED <<zipFiles, imageBytesByTarget>>

\* imageBytesByTarget.set(target, bytes): replaces the entry of the key or adds one
MapSet(entries, key, value) ==
    IF \E i \in 1..Len(entries) : entries[i].key = key
    THEN [i \in 1..Len(entries) |->
             IF entries[i].key = key THEN [key |-> key, value |-> value] ELSE entries[i]]
    ELSE Append(entries, [key |-> key, value |-> value])

\* zip.file(`word/${target}`).async('uint8array'): the bytes stored under the path
FileBytes(target) == <<"w", "o", "r", "d", "/">> \o target

\* for (const target of usedImageTargets) { if (!file) continue; ...set(target, bytes) }
RECURSIVE ReadImageBytes(_, _, _)
ReadImageBytes(targets, files, entries) ==
    IF targets = {} THEN entries
    ELSE LET target == CHOOSE t \in targets : TRUE
         IN  ReadImageBytes(targets \ {target}, files,
                 IF target \in files THEN MapSet(entries, target, FileBytes(target))
                 ELSE entries)

\* the end of the walk over bodyNodes, then the read of the used images
DocxEnd ==
    /\ docxPc = "walk"
    /\ docxPc' = "done"
    /\ imageBytesByTarget' = ReadImageBytes(usedImageTargets, zipFiles, <<>>)
    /\ UNCHANGED <<themeLookup, nodesRead, currentThemeId, blocksByTheme, orderByTheme,
                   usedImageTargets, unmatchedHeadings, lastNode, lastEmitted, resolvedSeq,
                   unmatchedSince, zipFiles>>

\* ---- properties of extractNotesFromDocx

\* C1: in every theme's block list the Nth block has order N, and the external keys
\* of the list are pairwise distinct.
C1_BlockOrdering ==
    \A t \in ThemeIds :
        LET bs == blocksByTheme[t]
        IN  /\ \A n \in 1..Len(bs) : bs[n].order = n
            /\ \A i, j \in 1..Len(bs) : i # j => bs[i].externalKey # bs[j].externalKey

\* a heading resolved to a theme that already had blocks, and blocks were pushed to it after
C1_Witness ==
    /\ lastEmitted # <<>>
    /\ \E k \in 1..Len(resolvedSeq) :
          /\ resolvedSeq[k].blocksThen >= 1
          /\ Len(blocksByTheme[resolvedSeq[k].id]) > resolvedSeq[k].blocksThen
          /\ lastEmitted[1].themeId = resolvedSeq[k].id

LastResolved == IF resolvedSeq = <<>> THEN NoTheme ELSE resolvedSeq[Len(resolvedSeq)].id

RECURSIVE EmittedBlocks(_)
EmittedBlocks(emitted) ==
    IF emitted = <<>> THEN <<>> ELSE <<Head(emitted).block>> \o EmittedBlocks(Tail(emitted))

HasContent(node) ==
    \/ node.type = "p" /\ ~IsHeading(node) /\ node.tokens # <<>>
    \/ node.type = "tbl" /\ TableText(node) # <<>>

\* C2: a level-2 heading with text that resolves to no theme is appended to
\* unmatchedHeadings and leaves currentThemeId and the blocks alone; the blocks of
\* every later paragraph and table go to the theme of the latest resolved heading.
C2_StepKeepsTheme ==
    (nodesRead' = nodesRead + 1) =>
        /\ (IsHeading(lastNode') /\ resolveTheme(themeLookup, HeadingText(lastNode')) = 0) =>
              /\ unmatchedHeadings' = Append(unmatchedHeadings, HeadingText(lastNode'))
              /\ currentThemeId' = currentThemeId
              /\ blocksByTheme' = blocksByTheme
        /\ \A i \in 1..Len(lastEmitted') : lastEmitted'[i].themeId = LastResolved
        /\ \A t \in ThemeIds :
              blocksByTheme'[t] = IF t = LastResolved /\ lastEmitted' # <<>>
                                  THEN blocksByTheme[t] \o EmittedBlocks(lastEmitted')
                                  ELSE blocksByTheme[t]
        /\ (resolvedSeq # <<>> /\ HasContent(lastNode')) => lastEmitted' # <<>>

C2_UnmatchedHeadingKeepsTheme == [][C2_StepKeepsTheme]_vars

\* blocks were pushed after an unresolved heading that followed a resolved one
C2_Witness == unmatchedSince /\ lastEmitted # <<>> /\ lastEmitted[1].themeId = LastResolved

ExactHits(themes, heading) ==
    { i \in 1..Len(themes) :
        LookupNormalizedTitle(themes[i]) = normalizeText(StripOrdinal(heading)) }

\* C3: a heading whose normalized text equals exactly one lookup's normalized title
\* resolves to that lookup, whatever the other lookups score.
C3_ExactMatchWins ==
    /\ \A node \in NodePool :
          (IsHeading(node) /\ Cardinality(ExactHits(themeLookup, HeadingText(node))) = 1) =>
              resolveTheme(themeLookup, HeadingText(node)) \in ExactHits(themeLookup, HeadingText(node))
    /\ (nodesRead > 0 /\ IsHeading(lastNode)
           /\ Cardinality(ExactHits(themeLookup, HeadingText(lastNode))) = 1) =>
          \E i \in ExactHits(themeLookup, HeadingText(lastNode)) : currentThemeId = themeLookup[i].id

\* the last heading matched one lookup exactly while an earlier lookup reaches the threshold
C3_Witness ==
    /\ nodesRead > 0 /\ IsHeading(lastNode)
    /\ Cardinality(ExactHits(themeLookup, HeadingText(lastNode))) = 1
    /\ \E i \in ExactHits(themeLookup, HeadingText(lastNode)) :
          /\ currentThemeId = themeLookup[i].id
          /\ \E j \in 1..(i - 1) :
                ~BelowThreshold(scoreNameMatch(LookupNormalizedTitle(themeLookup[j]),
                                               normalizeText(StripOrdinal(HeadingText(lastNode)))))

\* number of maximal runs of adjacent text tokens with the same bold flag
\* (tokens whose normalized text is empty are dropped and separate nothing)
BoldRuns(tokens) ==
    LET kept == SelectSeq(tokens, LAMBDA token :
                    token.kind = "image" \/ normalizeInlineText(token.value) # <<>>)
    IN  Cardinality({ i \in 1..Len(kept) :
            /\ kept[i].kind = "text"
            /\ i = 1 \/ kept[i - 1].kind # "text" \/ kept[i - 1].bold # kept[i].bold })

RECURSIVE SegmentCount(_)
SegmentCount(emitted) ==
    IF emitted = <<>> THEN 0
    ELSE Len(Head(emitted).block.richTextJson) + SegmentCount(Tail(emitted))

\* C10: no two adjacent segments of an emitted text block share their bold state, and
\* a paragraph yields one segment per run of same-bold text tokens.
C10_MergedSegments ==
    /\ \A t \in ThemeIds : \A n \in 1..Len(blocksByTheme[t]) :
          LET segments == blocksByTheme[t][n].richTextJson
          IN  \A i \in 1..(Len(segments) - 1) : segments[i].bold # segments[i + 1].bold
    /\ (lastNode.type = "p" /\ lastEmitted # <<>>) =>
          SegmentCount(lastEmitted) = BoldRuns(lastNode.tokens)

\* two adjacent same-bold tokens of the last paragraph ended up in a block of one segment
C10_Witness ==
    \E i \in 1..(Len(lastNode.tokens) - 1) :
        /\ lastNode.tokens[i].kind = "text" /\ lastNode.tokens[i + 1].kind = "text"
        /\ lastNode.tokens[i].bold = lastNode.tokens[i + 1].bold
        /\ \E k \in 1..Len(lastEmitted) :
              /\ Len(lastEmitted[k].block.richTextJson) = 1
              /\ lastEmitted[k].block.richTextJson[1].text =
                     lastNode.tokens[i].value \o <<" ">> \o lastNode.tokens[i + 1].value

\* the blocks of all themes that reference the image target
ImageBlocksOf(target) ==
    UNION { { <<t, n>> : n \in { m \in 1..Len(blocksByTheme[t]) :
                                   /\ blocksByTheme[t][m].kind = "image"
                                   /\ blocksByTheme[t][m].imageTarget = target } } :
            t \in ThemeIds }

EntriesOf(target) ==
    { i \in 1..Len(imageBytesByTarget) : imageBytesByTarget[i].key = target }

EmittedTargets ==
    UNION { { blocksByTheme[t][n].imageTarget :
                n \in { m \in 1..Len(blocksByTheme[t]) : blocksByTheme[t][m].kind = "image" } } :
            t \in ThemeIds }

\* C11 as stated: a target referenced by two or more emitted image blocks has exactly
\* one entry in the returned imageBytesByTarget.
C11_OneEntryPerSharedTarget ==
    docxPc = "done" =>
        \A target \in EmittedTargets :
            Cardinality(ImageBlocksOf(target)) >= 2 => Cardinality(EntriesOf(target)) = 1

\* C11 amended: a target referenced by emitted image blocks has exactly one entry, keyed
\* by the target path and holding the file's bytes, when the archive holds word/<target>,
\* and no entry when it does not.
C11_OneEntryPerStoredTarget ==
    docxPc = "done" =>
        \A target \in EmittedTargets :
            /\ Cardinality(EntriesOf(target)) = IF target \in zipFiles THEN 1 ELSE 0
            /\ \A i \in EntriesOf(target) : imageBytesByTarget[i].value = FileBytes(target)

\* the walk ended with one target referenced in two themes, or twice in one, and one entry
C11_Witness ==
    /\ docxPc = "done"
    /\ \E target \in EmittedTargets :
          /\ Cardinality(ImageBlocksOf(target)) >= 2
          /\ Cardinality(EntriesOf(target)) = 1

LookupIds == { themeLookup[i].id : i \in 1..Len(themeLookup) }
ResolvedIds == { resolvedSeq[k].id : k \in 1..Len(resolvedSeq) }

\* C18: until a level-2 heading has resolved to a theme no block is emitted, and every
\* theme that has blocks is a lookup that an earlier heading resolved to.
C18_NoBlocksBeforeResolvedHeading ==
    /\ resolvedSeq = <<>> => (\A t \in ThemeIds : blocksByTheme[t] = <<>>) /\ lastEmitted = <<>>
    /\ \A t \in ThemeIds : blocksByTheme[t] # <<>> => t \in LookupIds /\ t \in ResolvedIds

\* a paragraph or table with content was read before any heading resolved
C18_Witness ==
    /\ nodesRead >= 2 /\ resolvedSeq = <<>>
    /\ HasContent(lastNode)
    /\ \E i \in 1..Len(lastNode.tokens) : lastNode.tokens[i].kind = "image"

\* a paragraph styled Heading2 whose text tokens hold some text
HeadingStyled(node) ==
    /\ node.type = "p" /\ node.style = "Heading2"
    /\ \E i \in 1..Len(node.tokens) :
          node.tokens[i].kind = "text" /\ cleanLine(node.tokens[i].value) # <<>>

HasImageToken(node) == \E i \in 1..Len(node.tokens) : node.tokens[i].kind = "image"

\* C19: reading a level-2 heading paragraph with text emits no block, records no image
\* target and advances no order counter, whether or not the heading resolves.
C19_HeadingEmitsNothing ==
    [][(nodesRead' = nodesRead + 1 /\ HeadingStyled(lastNode')) =>
          /\ blocksByTheme' = blocksByTheme
          /\ orderByTheme' = orderByTheme
          /\ usedImageTargets' = usedImageTargets
          /\ lastEmitted' = <<>>]_vars

\* an unresolved heading that holds an image was read while a theme was current
C19_Witness ==
    /\ HeadingStyled(lastNode) /\ HasImageToken(lastNode)
    /\ currentThemeId # NoTheme /\ unmatchedSince
    /\ lastEmitted = <<>>

\* the text of the text tokens at positions a..b, as a block shows it
GroupText(tokens, a, b) ==
    cleanLine(Join([k \in 1..(b - a + 1) |-> tokens[a + k - 1].value], <<" ">>))

TextShape(text) == [kind |-> "text", text |-> text, imageTarget |-> <<>>]
ImageShape(target) == [kind |-> "image", text |-> <<>>, imageTarget |-> target]

\* the blocks of the tokens from position start on: the text between two images is one
\* text block, left out when blank, and every image is a block of its own
RECURSIVE ExpectedBlocks(_, _)
ExpectedBlocks(tokens, start) ==
    LET images == { i \in start..Len(tokens) : tokens[i].kind = "image" }
        first == CHOOSE i \in images : \A j \in images : i <= j
        textOf(a, b) == IF GroupText(tokens, a, b) = <<>> THEN <<>>
                        ELSE <<TextShape(GroupText(tokens, a, b))>>
    IN  IF images = {} THEN textOf(start, Len(tokens))
        ELSE textOf(start, first - 1) \o <<ImageShape(tokens[first].imageTarget)>>
                \o ExpectedBlocks(tokens, first + 1)

EmittedShapes ==
    [i \in 1..Len(lastEmitted) |->
        [kind |-> lastEmitted[i].block.kind, text |-> lastEmitted[i].block.text,
         imageTarget |-> lastEmitted[i].block.imageTarget]]

\* C20: a non-heading paragraph read with a current theme emits its blocks in token
\* order: the text before an image as one text block right before the image's block,
\* each image as its own block, the remaining text at the end.
C20_BlocksInTokenOrder ==
    (lastNode.type = "p" /\ ~HeadingStyled(lastNode) /\ currentThemeId # NoTheme) =>
        /\ EmittedShapes = ExpectedBlocks(lastNode.tokens, 1)
        /\ \A i \in 1..Len(lastEmitted) : lastEmitted[i].themeId = currentThemeId
        /\ \A i \in 1..(Len(lastEmitted) - 1) :
              lastEmitted[i + 1].block.order = lastEmitted[i].block.order + 1

\* text, an image, then text again: three blocks
C20_Witness ==
    /\ lastNode.type = "p" /\ ~HeadingStyled(lastNode) /\ currentThemeId # NoTheme
    /\ Len(lastEmitted) = 3
    /\ lastEmitted[1].block.kind = "text" /\ lastEmitted[2].block.kind = "image"
    /\ lastEmitted[3].block.kind = "text"
    /\ lastEmitted[1].block.text # <<>> /\ lastEmitted[3].block.text # <<>>

\* the first segment of a flushed buffer that is not blank is bold
FirstSegmentBold(segments) ==
    \E i \in 1..Len(segments) :
        /\ Trim(segments[i].text) # <<>> /\ segments[i].bold
        /\ \A j \in 1..(i - 1) : Trim(segments[j].text) = <<>>

\* C21: an emitted text block has textRole paragraph exactly when its paragraph has no
\* list level, subheading exactly when the level is 0 and the first non-empty segment
\* of the flushed buffer is bold, and list_item in every other case.
C21_TextRole ==
    \A i \in 1..Len(lastEmitted) :
        LET block == lastEmitted[i].block
        IN  block.kind = "text" =>
              /\ block.textRole \in {"paragraph", "subheading", "list_item"}
              /\ block.textRole = "paragraph" <=> lastNode.listLevel = -1
              /\ block.textRole = "subheading" <=>
                    (lastNode.listLevel = 0 /\ FirstSegmentBold(block.richTextJson))

\* a bold text below the outermost list level was emitted as a list item
C21_Witness ==
    \E i \in 1..Len(lastEmitted) :
        /\ lastEmitted[i].block.kind = "text"
        /\ lastNode.listLevel > 0
        /\ FirstSegmentBold(lastEmitted[i].block.richTextJson)
        /\ lastEmitted[i].block.textRole = "list_item"

-----------------------------------------------------------------------------
(* The mutations of convex/study.ts.  A table is the set of its rows; ids  *)
(* are handed out in creation order, and a collect() returns rows in that  *)
(* order.  Slugs, external keys and markdown are opaque strings here.      *)

MaxDbOps == 4

\* the row of `rows` with the largest id, as new Map(rows.map(...)).get() finds it; 0 for none
LastId(rows) == IF rows = {} THEN 0 ELSE CHOOSE i \in { r.id : r \in rows } : \A r \in rows : r.id <= i

\* ctx.db.patch(id, patch): the fields of patch replace those of the row
PatchRow(rows, id, patch) ==
    { IF r.id = id
      THEN [f \in DOMAIN r |-> IF f \in DOMAIN patch THEN patch[f] ELSE r[f]]
      ELSE r : r \in rows }

\* a theme row without the optional field manualNotesHtml
NoManualNotes == ""

CourseArg(slug, title, order, themes) ==
    [slug |-> slug, title |-> title, order |-> order, themes |-> themes]
ThemeArg(slug, number, order) ==
    [slug |-> slug, title |-> slug, number |-> number, order |-> order]

\* curricula passed to importCurriculum
CurriculumPool == {
    << CourseArg("c1", "Course one", 1, << ThemeArg("s1", 1, 1), ThemeArg("s2", 2, 2) >>) >>,
    << CourseArg("c1", "Course 1", 1, << ThemeArg("s1", 1, 1) >>),
       CourseArg("c2", "Course two", 2, << ThemeArg("s3", 1, 2) >>) >>,
    << CourseArg("c2", "Course two", 1, << ThemeArg("s3", 1, 1), ThemeArg("s3", 1, 2) >>) >>,
    << CourseArg("c1", "Course one", 1, << >>),
       CourseArg("c1", "Course one", 2, << ThemeArg("s2", 1, 1) >>) >> }

CourseSlugs == {"c1", "c2"}

RECURSIVE IncomingThemes(_)
IncomingThemes(incoming) ==
    IF incoming = <<>> THEN <<>>
    ELSE [i \in 1..Len(Head(incoming).themes) |->
              [courseSlug |-> Head(incoming).slug, theme |-> Head(incoming).themes[i]]]
         \o IncomingThemes(Tail(incoming))

\* the first loop of importCurriculum: st = [rows, nextId, idBySlug]
RECURSIVE UpsertCourses(_, _, _)
UpsertCourses(incoming, existingCourses, st) ==
    IF incoming = <<>> THEN st
    ELSE LET course == Head(incoming)
             existing == LastId({ r \in existingCourses : r.slug = course.slug })
             patch == [title |-> course.title, order |-> course.order]
         IN  IF existing # 0
             THEN UpsertCourses(Tail(incoming), existingCourses,
                      [st EXCEPT !.rows = PatchRow(@, existing, patch),
                                 !.idBySlug[course.slug] = existing])
             ELSE UpsertCourses(Tail(incoming), existingCourses,
                      [st EXCEPT !.rows = @ \cup {[id |-> st.nextId, slug |-> course.slug,
                                                   title |-> course.title, order |-> course.order]},
                                 !.nextId = @ + 1,
                                 !.idBySlug[course.slug] = st.nextId])

\* the second loop of importCurriculum: st = [rows, nextId]
RECURSIVE UpsertThemes(_, _, _, _)
UpsertThemes(incoming, existingThemes, idBySlug, st) ==
    IF incoming = <<>> THEN st
    ELSE LET theme == Head(incoming).theme
             courseId == idBySlug[Head(incoming).courseSlug]
             existing == LastId({ r \in existingThemes : r.slug = theme.slug })
             patch == [courseId |-> courseId, slug |-> theme.slug,
                       title |-> theme.title, number |-> theme.number,
                       order |-> theme.order]
         IN  IF existing # 0
             THEN UpsertThemes(Tail(incoming), existingThemes, idBySlug,
                      [st EXCEPT !.rows = PatchRow(@, existing, patch)])
             ELSE UpsertThemes(Tail(incoming), existingThemes, idBySlug,
                      [st EXCEPT !.rows = @ \cup {[id |-> st.nextId, courseId |-> courseId,
                                                   slug |-> theme.slug, title |-> theme.title,
                                                   number |-> theme.number, order |-> theme.order,
                                                   manualNotesHtml |-> NoManualNotes]},
                                 !.nextId = @ + 1])

NoOp ==
    [op |-> "", themeId |-> 0, blocks |-> <<>>, incoming |-> <<>>, threw |-> FALSE,
     repeated |-> FALSE, skippedEdited |-> FALSE]

\* mutant: the rows of every theme are deleted
removeThemeDataOfAll(rows, themeIds) == {}

\* removeThemeData for each theme of themeIds, on the table noteBlocks or progress
removeThemeData(rows, themeIds) == { r \in rows : r.themeId \notin themeIds }

DbInit ==
    /\ dbCourses = {}
    /\ dbThemes = {}
    /\ dbNoteBlocks = {}
    /\ dbThemeNotes = {}
    /\ dbProgressRows = {}
    /\ nextId = 1
    /\ dbOps = 0
    /\ lastOp = NoOp
    /\ lastReplace = {}

ImportCurriculum(incoming) ==
    LET incomingCourseSlugs == { incoming[i].slug : i \in 1..Len(incoming) }
        incomingThemes == IncomingThemes(incoming)
        incomingThemeSlugs == { incomingThemes[i].theme.slug : i \in 1..Len(incomingThemes) }
        afterCourses == UpsertCourses(incoming, dbCourses,
                            [rows |-> dbCourses, nextId |-> nextId,
                             idBySlug |-> [s \in CourseSlugs |-> 0]])
        afterThemes == UpsertThemes(incomingThemes, dbThemes, afterCourses.idBySlug,
                            [rows |-> dbThemes, nextId |-> afterCourses.nextId])
        staleThemes == { r.id : r \in { t \in dbThemes : t.slug \notin incomingThemeSlugs } }
        staleCourses == { r.id : r \in { c \in dbCourses : c.slug \notin incomingCourseSlugs } }
    IN  /\ dbOps < MaxDbOps
        /\ dbCourses' = { r \in afterCourses.rows : r.id \notin staleCourses }
        /\ dbThemes' = { r \in afterThemes.rows : r.id \notin staleThemes }
        /\ dbNoteBlocks' = removeThemeData(dbNoteBlocks, staleThemes)
        /\ dbProgressRows' = removeThemeData(dbProgressRows, staleThemes)
        /\ nextId' = afterThemes.nextId
        /\ dbOps' = dbOps + 1
        /\ lastOp' = [NoOp EXCEPT !.op = "importCurriculum", !.incoming = incoming]
        /\ UNCHANGED <<dbThemeNotes, lastReplace>>

BlockArg(externalKey, order, kind) ==
    [externalKey |-> externalKey, order |-> order, kind |-> kind, text |-> <<"n">>]

\* block lists passed to replaceThemeNoteBlocks
BlockListPool == {
    << BlockArg("k1", 1, "text"), BlockArg("k2", 2, "table") >>,
    << BlockArg("k2", 1, "text"), BlockArg("k2", 2, "image") >>,
    << >> }

\* ensureThemeExists does not throw
ThemeExists(themeId) == \E t \in dbThemes : t.id = themeId

\* mutant: no stored block is recognised by its external key
ExistingByExternalKeyNone(existing, key) == 0

\* existingByExternalKey.get(key): the index by_theme_order lists rows by order, then
\* by creation, and the Map keeps the last row of a key; 0 for undefined
ExistingByExternalKey(existing, key) ==
    LET hits == { r \in existing : r.externalKey = key }
    IN  IF hits = {} THEN 0
        ELSE (CHOOSE r \in hits : \A q \in hits :
                  q.order < r.order \/ (q.order = r.order /\ q.id <= r.id)).id

\* the loop over args.blocks: st = [rows, nextId]
RECURSIVE UpsertBlocks(_, _, _, _)
UpsertBlocks(blocks, existing, themeId, st) ==
    IF blocks = <<>> THEN st
    ELSE LET block == Head(blocks)
             existingBlock == ExistingByExternalKey(existing, block.externalKey)
             patch == [externalKey |-> block.externalKey, order |-> block.order,
                       kind |-> block.kind, text |-> block.text,
                       userEditedAt |-> 0]
         IN  IF existingBlock # 0
             THEN UpsertBlocks(Tail(blocks), existing, themeId,
                      [st EXCEPT !.rows = PatchRow(@, existingBlock, patch)])
             ELSE UpsertBlocks(Tail(blocks), existing, themeId,
                      [st EXCEPT !.rows = @ \cup {[id |-> st.nextId, themeId |-> themeId,
                                                   externalKey |-> block.externalKey,
                                                   order |-> block.order, kind |-> block.kind,
                                                   text |-> block.text, userEditedAt |-> 0]},
                                 !.nextId = @ + 1])

ReplaceThemeNoteBlocks(themeId, blocks) ==
    LET existing == { r \in dbNoteBlocks : r.themeId = themeId }
        after == UpsertBlocks(blocks, existing, themeId, [rows |-> dbNoteBlocks, nextId |-> nextId])
        seen == { blocks[i].externalKey : i \in 1..Len(blocks) }
        stale == { r.id : r \in { e \in existing : e.externalKey \notin seen } }
        ghost == [NoOp EXCEPT !.op = "replaceThemeNoteBlocks", !.themeId = themeId,
                              !.blocks = blocks,
                              !.repeated = ([themeId |-> themeId, blocks |-> blocks] \in lastReplace)]
    IN  /\ dbOps < MaxDbOps
        /\ dbOps' = dbOps + 1
        /\ lastReplace' = { c \in lastReplace : c.themeId # themeId }
                              \cup {[themeId |-> themeId, blocks |-> blocks]}
        /\ IF ThemeExists(themeId)
           THEN /\ dbNoteBlocks' = { r \in after.rows : r.id \notin stale }
                /\ nextId' = after.nextId
                /\ lastOp' = ghost
           ELSE /\ UNCHANGED <<dbNoteBlocks, nextId>>
                /\ lastOp' = [ghost EXCEPT !.threw = TRUE]
        /\ UNCHANGED <<dbCourses, dbThemes, dbThemeNotes, dbProgressRows>>

\* texts a user types into a note block
UserTextPool == { <<" ", "u", " ">>, <<" ">> }

UpdateNoteBlockText(blockId, rawText) ==
    LET found == { b \in dbNoteBlocks : b.id = blockId }
        block == CHOOSE b \in found : TRUE
        \* args.text.trim() for a table, sanitizeTitle(args.text) for text
        text == IF block.kind = "table" THEN Trim(rawText) ELSE Trim(CollapseSpace(rawText))
        throws == found = {} \/ block.kind = "image" \/ text = <<>>
        patch == [text |-> text, userEditedAt |-> dbOps + 1]
    IN  /\ dbOps < MaxDbOps
        /\ dbOps' = dbOps + 1
        /\ dbNoteBlocks' = IF throws THEN dbNoteBlocks ELSE PatchRow(dbNoteBlocks, blockId, patch)
        /\ lastOp' = [NoOp EXCEPT !.op = "updateNoteBlockText", !.themeId = blockId,
                                  !.threw = throws]
        /\ UNCHANGED <<dbCourses, dbThemes, dbThemeNotes, dbProgressRows, nextId, lastReplace>>

MarkdownPool == {"md1", "md2"}

\* the user saves an edited markdown note of a theme
SaveThemeNote(themeId, markdown) ==
    LET existing == LastId({ n \in dbThemeNotes : n.themeId = themeId })
        patch == [markdown |-> markdown, source |-> "user_edit",
                  userEditedAt |-> dbOps + 1]
    IN  /\ dbOps < MaxDbOps
        /\ ThemeExists(themeId)
        /\ dbOps' = dbOps + 1
        /\ IF existing # 0
           THEN /\ dbThemeNotes' = PatchRow(dbThemeNotes, existing, patch)
                /\ UNCHANGED nextId
           ELSE /\ dbThemeNotes' = dbThemeNotes \cup
                       {[id |-> nextId, themeId |-> themeId, markdown |-> markdown,
                         source |-> "user_edit", userEditedAt |-> dbOps + 1]}
                /\ nextId' = nextId + 1
        /\ lastOp' = [NoOp EXCEPT !.op = "saveThemeNote", !.themeId = themeId]
        /\ UNCHANGED <<dbCourses, dbThemes, dbNoteBlocks, dbProgressRows, lastReplace>>

\* mutant: an edited note is overwritten like any other
SkipsEditedNever(existingNotes) == FALSE

\* whether replaceThemeNoteFromDocx leaves the note of the theme alone
SkipsEdited(existingNotes) == \E n \in existingNotes : n.userEditedAt # 0

\* replaceThemeNoteFromDocx, called by run() of scripts/import-study-data.ts for one theme
ReplaceThemeNoteFromDocx(themeId, markdown) ==
    LET existingNotes == { n \in dbThemeNotes : n.themeId = themeId }
        existing == LastId(existingNotes)
        skip == SkipsEdited(existingNotes)
        patch == [markdown |-> markdown, source |-> "import_docx",
                  userEditedAt |-> 0]
    IN  /\ dbOps < MaxDbOps
        /\ ThemeExists(themeId)
        /\ dbOps' = dbOps + 1
        /\ IF skip
           THEN UNCHANGED <<dbThemeNotes, nextId>>
           ELSE IF existing # 0
           THEN /\ dbThemeNotes' = PatchRow(dbThemeNotes, existing, patch)
                /\ UNCHANGED nextId
           ELSE /\ dbThemeNotes' = dbThemeNotes \cup
                       {[id |-> nextId, themeId |-> themeId, markdown |-> markdown,
                         source |-> "import_docx", userEditedAt |-> 0]}
                /\ nextId' = nextId + 1
        /\ lastOp' = [NoOp EXCEPT !.op = "replaceThemeNoteFromDocx", !.themeId = themeId,
                                  !.skippedEdited = skip]
        /\ UNCHANGED <<dbCourses, dbThemes, dbNoteBlocks, dbProgressRows, lastReplace>>

\* ids the mutations are called with: those of stored rows, those of themes a block
\* list was sent for before (stored or deleted since), and 0 for a row that is gone
ThemeIdArgs == { t.id : t \in dbThemes } \cup { c.themeId : c \in lastReplace }
BlockIdArgs == { b.id : b \in dbNoteBlocks } \cup {0}

\* ---- properties of the mutations

\* C7: an import step for a theme whose note carries the user-edited marker leaves the
\* note row, its content and its marker as they were.
C7_StepKeepsEdits ==
    (lastOp'.op = "replaceThemeNoteFromDocx" /\ dbOps' = dbOps + 1) =>
        \A n \in dbThemeNotes :
            (n.themeId = lastOp'.themeId /\ n.userEditedAt # 0) => n \in dbThemeNotes'

BlockIdsOf(rows, themeId) == { r.id : r \in { b \in rows : b.themeId = themeId } }

\* C8: replaceThemeNoteBlocks called for a theme again with the block list of its
\* previous call inserts no row and deletes no row: the theme keeps its block ids.
C8_StepIdempotent ==
    (lastOp'.op = "replaceThemeNoteBlocks" /\ dbOps' = dbOps + 1
        /\ [themeId |-> lastOp'.themeId, blocks |-> lastOp'.blocks] \in lastReplace) =>
        /\ BlockIdsOf(dbNoteBlocks', lastOp'.themeId) = BlockIdsOf(dbNoteBlocks, lastOp'.themeId)
        /\ nextId' = nextId

C8_ReimportIdempotent == [][C8_StepIdempotent]_vars

\* the last call repeated the theme's previous block list, and the theme holds blocks
C8_Witness ==
    /\ lastOp.op = "replaceThemeNoteBlocks" /\ lastOp.repeated /\ ~lastOp.threw
    /\ lastOp.blocks # <<>>
    /\ BlockIdsOf(dbNoteBlocks, lastOp.themeId) # {}

\* C9: after importCurriculum the stored course slugs are the incoming course slugs,
\* the stored theme slugs are the incoming theme slugs, and each slug is stored once.
C9_SlugsMatchIncoming ==
    lastOp.op = "importCurriculum" =>
        LET incomingThemes == IncomingThemes(lastOp.incoming)
        IN  /\ { c.slug : c \in dbCourses } = { lastOp.incoming[i].slug : i \in 1..Len(lastOp.incoming) }
            /\ { t.slug : t \in dbThemes } = { incomingThemes[i].theme.slug : i \in 1..Len(incomingThemes) }
            /\ \A c, d \in dbCourses : c.slug = d.slug => c = d
            /\ \A t, u \in dbThemes : t.slug = u.slug => t = u

-----------------------------------------------------------------------------
(* importCurriculum, setThemeProgress and replaceThemeNoteBlocks on one    *)
(* database: what a theme's id is referred to by.  A progress row is kept  *)
(* to its user key, its theme id, its status and its review count.         *)

\* a database as an earlier version of the application left it: themes with manual notes
DbStartPool == {
    [courses |-> {}, themes |-> {}, nextId |-> 1],
    [courses |-> {[id |-> 1, slug |-> "c1", title |-> "Course one", order |-> 1]},
     themes |-> {[id |-> 2, courseId |-> 1, slug |-> "s1", title |-> "s1", number |-> 1,
                  order |-> 1, manualNotesHtml |-> "<p>m</p>"],
                 [id |-> 3, courseId |-> 1, slug |-> "s3", title |-> "s3", number |-> 2,
                  order |-> 2, manualNotesHtml |-> "<p>k</p>"]},
     nextId |-> 4] }

\* curricula passed to importCurriculum: those of CurriculumPool, and one that moves a theme
CurriculumArgs ==
    CurriculumPool \cup { << CourseArg("c1", "Course one", 1, << ThemeArg("s3", 1, 1) >>) >> }

ProgressStatusPool == {"mastered"}
UserKeys == {"u1", "u2"}

CurriculumInit ==
    /\ \E db \in DbStartPool :
          dbCourses = db.courses /\ dbThemes = db.themes /\ nextId = db.nextId
    /\ dbNoteBlocks = {}
    /\ dbThemeNotes = {}
    /\ dbProgressRows = {}
    /\ dbOps = 0
    /\ lastOp = NoOp
    /\ lastReplace = {}

\* setThemeProgress: the row of the user key and the theme is patched, or inserted
SetThemeProgressFor(userKey, themeId, status) ==
    LET reviewIncrement == IF status = "reviewed" \/ status = "mastered" THEN 1 ELSE 0
        existing == LastId({ r \in dbProgressRows : r.userKey = userKey /\ r.themeId = themeId })
        reviewCount == IF existing # 0
                       THEN (CHOOSE r \in dbProgressRows : r.id = existing).reviewCount
                       ELSE 0
        patch == [userKey |-> userKey, themeId |-> themeId, status |-> status,
                  reviewCount |-> reviewCount + reviewIncrement]
        ghost == [NoOp EXCEPT !.op = "setThemeProgress", !.themeId = themeId]
    IN  /\ dbOps < MaxDbOps
        /\ dbOps' = dbOps + 1
        /\ IF ThemeExists(themeId)
           THEN /\ IF existing # 0
                   THEN /\ dbProgressRows' = PatchRow(dbProgressRows, existing, patch)
                        /\ UNCHANGED nextId
                   ELSE /\ dbProgressRows' = dbProgressRows \cup
                              {[id |-> nextId, userKey |-> userKey, themeId |-> themeId,
                                status |-> status, reviewCount |-> reviewIncrement]}
                        /\ nextId' = nextId + 1
                /\ lastOp' = ghost
           ELSE /\ UNCHANGED <<dbProgressRows, nextId>>
                /\ lastOp' = [ghost EXCEPT !.threw = TRUE]
        /\ UNCHANGED <<dbCourses, dbThemes, dbNoteBlocks, dbThemeNotes, lastReplace>>

RowsOfTheme(rows, themeId) == { r \in rows : r.themeId = themeId }

\* C27: importCurriculum leaves a stored theme whose slug is incoming its id, its manual
\* notes, its progress rows and its note blocks; the progress rows and note blocks it
\* deletes are those of stored themes whose slug is not incoming.
C27_StepKeepsThemeData ==
    (lastOp'.op = "importCurriculum" /\ dbOps' = dbOps + 1) =>
        LET incomingThemes == IncomingThemes(lastOp'.incoming)
            incomingThemeSlugs ==
                { incomingThemes[i].theme.slug : i \in 1..Len(incomingThemes) }
            kept == { t \in dbThemes : t.slug \in incomingThemeSlugs }
            absent == { t.id : t \in dbThemes \ kept }
        IN  /\ \A t \in kept :
                  /\ \E u \in dbThemes' :
                        u.id = t.id /\ u.manualNotesHtml = t.manualNotesHtml
                  /\ RowsOfTheme(dbProgressRows', t.id) = RowsOfTheme(dbProgressRows, t.id)
                  /\ RowsOfTheme(dbNoteBlocks', t.id) = RowsOfTheme(dbNoteBlocks, t.id)
            /\ \A r \in dbProgressRows \ dbProgressRows' : r.themeId \in absent
            /\ \A b \in dbNoteBlocks \ dbNoteBlocks' : b.themeId \in absent
            /\ \A id \in absent :
                  RowsOfTheme(dbProgressRows', id) = {} /\ RowsOfTheme(dbNoteBlocks', id) = {}

C27_ImportKeepsThemeData == [][C27_StepKeepsThemeData]_vars

\* the last mutation was an import; a theme with manual notes, progress rows of two users
\* and note blocks is stored after it, and a theme of the starting database is gone
C27_Witness ==
    /\ lastOp.op = "importCurriculum"
    /\ \E t \in dbThemes :
          /\ t.manualNotesHtml # NoManualNotes
          /\ \A userKey \in UserKeys :
                \E r \in dbProgressRows : r.themeId = t.id /\ r.userKey = userKey
          /\ RowsOfTheme(dbNoteBlocks, t.id) # {}
    /\ \E db \in DbStartPool : \E t \in db.themes : ~ThemeExists(t.id)

\* C28: every stored theme's courseId is the id of a stored course, and every progress
\* row and every noteBlocks row has the id of a stored theme.
C28_NoDanglingReferences ==
    /\ \A t \in dbThemes : \E c \in dbCourses : c.id = t.courseId
    /\ \A r \in dbProgressRows : ThemeExists(r.themeId)
    /\ \A b \in dbNoteBlocks : ThemeExists(b.themeId)

-----------------------------------------------------------------------------
(* setThemeProgress of convex/study.ts. A number is the fraction <<n, d>>;  *)
(* an optional argument is <<>> when absent and <<value>> when given.       *)

MaxProgressOps == 2
ConfidenceMin == 0
ConfidenceMax == 5

Whole(n) == <<n, 1>>
Tenths(n) == <<n, 10>>

\* Math.round(x): the nearest integer, halves towards +Infinity
Round(x) == (2 * x[1] + x[2]) \div (2 * x[2])

Min(a, b) == IF a < b THEN a ELSE b
Max(a, b) == IF a > b THEN a ELSE b

\* mutant: the upper limit is missing
clampConfidenceFromZero(confidence) == Max(ConfidenceMin, Round(confidence))

\* Math.max(0, Math.min(5, Math.round(confidence)))
clampConfidence(confidence) == Max(ConfidenceMin, Min(ConfidenceMax, Round(confidence)))

RECURSIVE Sum(_)
Sum(values) == IF values = <<>> THEN 0 ELSE Head(values) + Sum(Tail(values))

SubthemeCountPool == {0, 2, 3}
ConfidencePool == { Tenths(25), Tenths(74) }
ManualConfidencePool == { <<>>, <<Whole(9)>> }
ConfidenceModePool == { <<>>, <<"derived">>, <<"manual">> }
SubthemeConfidencesPool ==
    { <<>>, << <<Tenths(25), Tenths(-15)>> >>,
      << <<Whole(4), Tenths(49), Whole(7), Whole(1)>> >> }
StatusPool == {"in_progress", "mastered"}

ProgressArgs ==
    [userKey : UserKeys, status : StatusPool, confidence : ConfidencePool,
     confidenceMode : ConfidenceModePool, manualConfidence : ManualConfidencePool,
     subthemeConfidences : SubthemeConfidencesPool]

NoProgressArgs == [userKey |-> "", outOfRange |-> FALSE]

OutOfRange(x) == x[1] < ConfidenceMin * x[2] \/ x[1] > ConfidenceMax * x[2]

AllOutOfRange(args) ==
    /\ OutOfRange(args.confidence)
    /\ args.manualConfidence # <<>> /\ OutOfRange(args.manualConfidence[1])
    /\ args.subthemeConfidences # <<>>
    /\ \E i \in 1..Len(args.subthemeConfidences[1]) :
          OutOfRange(args.subthemeConfidences[1][i])

ProgressInit ==
    /\ themeSubthemes \in SubthemeCountPool
    /\ dbProgress = {}
    /\ progressOps = 0
    /\ lastProgressArgs = NoProgressArgs

SetThemeProgress(args) ==
    LET reviewed == args.status = "reviewed" \/ args.status = "mastered"
        reviewIncrement == IF reviewed THEN 1 ELSE 0
        found == { r \in dbProgress : r.userKey = args.userKey }
        existing == IF found = {} THEN <<>> ELSE <<CHOOSE r \in found : TRUE>>
        subthemeCount == themeSubthemes
        \* args.subthemeConfidences ?? existing?.subthemeConfidences ?? Array(n).fill(0)
        baseSubthemeConfidences ==
            IF args.subthemeConfidences # <<>> THEN args.subthemeConfidences[1]
            ELSE IF existing # <<>>
                 THEN [i \in 1..Len(existing[1].subthemeConfidences) |->
                          Whole(existing[1].subthemeConfidences[i])]
            ELSE [i \in 1..subthemeCount |-> Whole(0)]
        subthemeConfidences ==
            [i \in 1..subthemeCount |->
                clampConfidence(IF i <= Len(baseSubthemeConfidences)
                                THEN baseSubthemeConfidences[i] ELSE Whole(0))]
        averageSubthemeConfidence ==
            IF subthemeCount # 0
            THEN <<clampConfidence(<<Sum(subthemeConfidences), Max(1, subthemeCount)>>)>>
            ELSE <<>>
        manualConfidence ==
            IF args.manualConfidence # <<>> THEN clampConfidence(args.manualConfidence[1])
            ELSE IF existing # <<>> THEN clampConfidence(Whole(existing[1].manualConfidence))
            ELSE clampConfidence(args.confidence)
        requestedMode ==
            IF args.confidenceMode # <<>> THEN args.confidenceMode[1]
            ELSE IF existing # <<>> THEN existing[1].confidenceMode
            ELSE "manual"
        confidenceMode ==
            IF requestedMode = "derived" /\ averageSubthemeConfidence # <<>>
            THEN "derived" ELSE "manual"
        confidence ==
            IF confidenceMode = "derived" /\ averageSubthemeConfidence # <<>>
            THEN averageSubthemeConfidence[1] ELSE manualConfidence
        patch == [userKey |-> args.userKey,
                  status |-> args.status,
                  confidence |-> confidence,
                  confidenceMode |-> confidenceMode,
                  manualConfidence |-> manualConfidence,
                  subthemeConfidences |-> subthemeConfidences,
                  lastReviewedAt |-> IF reviewed THEN progressOps + 1
                                     ELSE IF existing # <<>> THEN existing[1].lastReviewedAt
                                     ELSE 0,
                  reviewCount |-> (IF existing # <<>> THEN existing[1].reviewCount ELSE 0)
                                      + reviewIncrement]
    IN  /\ progressOps < MaxProgressOps
        /\ progressOps' = progressOps + 1
        /\ dbProgress' = (dbProgress \ found) \cup {patch}
        /\ lastProgressArgs' = [userKey |-> args.userKey, outOfRange |-> AllOutOfRange(args)]
        /\ UNCHANGED themeSubthemes

\* updateThemeSubthemes: ctx.db.patch(args.themeId, { subthemes })
UpdateThemeSubthemes(count) ==
    /\ progressOps < MaxProgressOps
    /\ count # themeSubthemes
    /\ progressOps' = progressOps + 1
    /\ themeSubthemes' = count
    /\ UNCHANGED <<dbProgress, lastProgressArgs>>

\* ---- properties of setThemeProgress

ConfidenceRange == ConfidenceMin..ConfidenceMax

\* C14: every stored progress row has confidence, manualConfidence and each element
\* of subthemeConfidences equal to an integer in 0..5.
C14_ConfidenceInRange ==
    \A r \in dbProgress :
        /\ r.confidence \in ConfidenceRange
        /\ r.manualConfidence \in ConfidenceRange
        /\ \A i \in 1..Len(r.subthemeConfidences) : r.subthemeConfidences[i] \in ConfidenceRange

\* the last call passed a confidence, a manual confidence and a subtheme confidence outside
\* 0..5 and stored a row with subtheme confidences in derived mode
C14_Witness ==
    /\ lastProgressArgs.outOfRange
    /\ \E r \in dbProgress :
          /\ r.userKey = lastProgressArgs.userKey
          /\ r.confidenceMode = "derived"
          /\ r.subthemeConfidences # <<>>

-----------------------------------------------------------------------------
(* The note file format of markdownFile.ts. Indexes are 0-based as in the   *)
(* source; Slice(s, a, b) is s.slice(a, b).                                 *)

DQ == "\""
BS == "\\"
CR == "\r"
LF == "\n"
TAB == "\t"

noteFileFormat == <<"s", "t", "u", "d", "y", "-", "p", "o", "o", "k", "-", "n", "o", "t", "e", "/", "v", "1">>
noteImageStrategy == <<"c", "o", "n", "v", "e", "x", "-", "s", "t", "o", "r", "a", "g", "e", "-", "u", "r", "i">>

Slice(s, a, b) == SubSeq(s, a + 1, b)

\* s.indexOf(pattern, from): -1 when the pattern does not occur at or after from
IndexOf(s, pattern, from) ==
    LET hits == { i \in from..(Len(s) - Len(pattern)) :
                    Slice(s, i, i + Len(pattern)) = pattern }
    IN  IF hits = {} THEN -1 ELSE CHOOSE i \in hits : \A j \in hits : i <= j

\* JSON.stringify(value) of a string
RECURSIVE JsonEscape(_)
JsonEscape(s) ==
    IF s = <<>> THEN <<>>
    ELSE (CASE Head(s) = DQ -> <<BS, DQ>>
            [] Head(s) = BS -> <<BS, BS>>
            [] Head(s) = LF -> <<BS, "n">>
            [] Head(s) = CR -> <<BS, "r">>
            [] Head(s) = TAB -> <<BS, "t">>
            [] OTHER -> <<Head(s)>>) \o JsonEscape(Tail(s))

quoteYamlValue(value) == <<DQ>> \o JsonEscape(value) \o <<DQ>>

\* the characters between the quotes of a JSON string: [ok, value]
RECURSIVE JsonUnescape(_)
JsonUnescape(s) ==
    IF s = <<>> THEN [ok |-> TRUE, value |-> <<>>]
    ELSE IF Head(s) \in {DQ, LF, CR, TAB} THEN [ok |-> FALSE, value |-> <<>>]
    ELSE IF Head(s) = BS
    THEN IF Len(s) < 2 \/ s[2] \notin {DQ, BS, "n", "r", "t"}
         THEN [ok |-> FALSE, value |-> <<>>]
         ELSE LET rest == JsonUnescape(Drop(s, 2))
                  char == CASE s[2] = "n" -> LF [] s[2] = "r" -> CR [] s[2] = "t" -> TAB
                            [] OTHER -> s[2]
              IN  [ok |-> rest.ok, value |-> <<char>> \o rest.value]
    ELSE LET rest == JsonUnescape(Tail(s))
         IN  [ok |-> rest.ok, value |-> <<Head(s)>> \o rest.value]

\* JSON.parse(value) of a text that starts with a quote: [ok, value], ok FALSE for a throw
JsonParse(value) ==
    IF Len(value) >= 2 /\ value[1] = DQ /\ value[Len(value)] = DQ
    THEN JsonUnescape(Slice(value, 1, Len(value) - 1))
    ELSE [ok |-> FALSE, value |-> <<>>]

\* [...].join('\n')
RECURSIVE JoinLines(_)
JoinLines(lines) ==
    IF Len(lines) = 1 THEN lines[1]
    ELSE lines[1] \o <<LF>> \o JoinLines(Tail(lines))

\* value.replace(/\r\n/g, '\n'): a CR that ends a piece before a LF goes
normalizeNewlines(value) ==
    LET pieces == SplitOn(value, LF)
        DropCR(piece) ==
            IF piece # <<>> /\ piece[Len(piece)] = CR
            THEN SubSeq(piece, 1, Len(piece) - 1) ELSE piece
    IN  JoinLines([i \in 1..Len(pieces) |->
                      IF i < Len(pieces) THEN DropCR(pieces[i]) ELSE pieces[i]])

IsBlank(c) == c \in {" ", TAB}

RECURSIVE BlankRun(_)
BlankRun(s) == IF s # <<>> /\ IsBlank(Head(s)) THEN 1 + BlankRun(Tail(s)) ELSE 0

\* value.replace(/[ \t]+$/gm, ''): $ matches at the end and before a line terminator
RECURSIVE StripLineEndBlanks(_)
StripLineEndBlanks(s) ==
    IF s = <<>> THEN <<>>
    ELSE IF IsBlank(Head(s))
    THEN LET run == BlankRun(s)
             rest == Drop(s, run)
         IN  IF rest = <<>> \/ Head(rest) \in {LF, CR}
             THEN StripLineEndBlanks(rest)
             ELSE Take(s, run) \o StripLineEndBlanks(rest)
    ELSE <<Head(s)>> \o StripLineEndBlanks(Tail(s))

RECURSIVE NewlineRun(_)
NewlineRun(s) == IF s # <<>> /\ Head(s) = LF THEN 1 + NewlineRun(Tail(s)) ELSE 0

\* value.replace(/\n{3,}/g, '\n\n')
RECURSIVE CollapseNewlines(_)
CollapseNewlines(s) ==
    IF s = <<>> THEN <<>>
    ELSE IF Head(s) = LF
    THEN LET run == NewlineRun(s)
         IN  (IF run >= 3 THEN <<LF, LF>> ELSE Take(s, run)) \o CollapseNewlines(Drop(s, run))
    ELSE <<Head(s)>> \o CollapseNewlines(Tail(s))

normalizeMarkdown(value) ==
    Trim(CollapseNewlines(StripLineEndBlanks(normalizeNewlines(value))))

\* parseYamlScalar
parseYamlScalar(rawValue) ==
    LET value == Trim(rawValue)
        quoted(q) == value # <<>> /\ value[1] = q /\ value[Len(value)] = q
        parsed == JsonParse(value)
    IN  IF value = <<>> THEN <<>>
        ELSE IF quoted(DQ) \/ quoted("'")
        THEN IF parsed.ok THEN parsed.value ELSE Slice(value, 1, Len(value) - 1)
        ELSE value

\* the reducer of parseSimpleFrontmatter over one line; acc is the entries in key order
FrontmatterLine(acc, line) ==
    LET trimmed == Trim(line)
        separatorIndex == IndexOf(trimmed, <<":">>, 0)
        key == Trim(Slice(trimmed, 0, separatorIndex))
        value == Slice(trimmed, separatorIndex + 1, Len(trimmed))
        entry == [key |-> key, value |-> parseYamlScalar(value)]
    IN  IF trimmed = <<>> \/ trimmed[1] = "#" THEN acc
        ELSE IF separatorIndex <= 0 THEN acc
        ELSE IF \E i \in 1..Len(acc) : acc[i].key = key
        THEN [i \in 1..Len(acc) |-> IF acc[i].key = key THEN entry ELSE acc[i]]
        ELSE Append(acc, entry)

RECURSIVE FrontmatterData(_, _)
FrontmatterData(acc, lines) ==
    IF lines = <<>> THEN acc
    ELSE FrontmatterData(FrontmatterLine(acc, Head(lines)), Tail(lines))

FrontmatterOpen == <<"-", "-", "-", LF>>
FrontmatterClose == <<LF, "-", "-", "-", LF>>

\* parseSimpleFrontmatter: [ok, data, markdown], ok FALSE for a throw
parseSimpleFrontmatter(rawContent) ==
    LET content == normalizeNewlines(rawContent)
        closeIndex == IndexOf(content, FrontmatterClose, Len(FrontmatterOpen))
        rawFrontmatter == Slice(content, Len(FrontmatterOpen), closeIndex)
        markdown == Slice(content, closeIndex + Len(FrontmatterClose), Len(content))
        failed == [ok |-> FALSE, data |-> <<>>, markdown |-> <<>>]
    IN  IF ~StartsWith(content, FrontmatterOpen) THEN failed
        ELSE IF closeIndex < 0 THEN failed
        ELSE [ok |-> TRUE,
              data |-> FrontmatterData(<<>>, SplitOn(rawFrontmatter, LF)),
              markdown |-> markdown]

\* String(parsed.data[key] ?? '')
DataValue(data, key) ==
    IF \E i \in 1..Len(data) : data[i].key = key
    THEN data[CHOOSE i \in 1..Len(data) : data[i].key = key].value
    ELSE <<>>

KeyFormat == <<"f", "o", "r", "m", "a", "t">>
KeyThemeSlug == <<"t", "h", "e", "m", "e", "S", "l", "u", "g">>
KeyThemeTitle == <<"t", "h", "e", "m", "e", "T", "i", "t", "l", "e">>
KeyImageStrategy == <<"i", "m", "a", "g", "e", "S", "t", "r", "a", "t", "e", "g", "y">>
KeyExportedAt == <<"e", "x", "p", "o", "r", "t", "e", "d", "A", "t">>

\* `${key}: ${quoteYamlValue(value)}`
FrontmatterEntry(key, value) == key \o <<":", " ">> \o quoteYamlValue(value)

serializeThemeNoteFile(args) ==
    LET markdown == normalizeMarkdown(args.markdown)
    IN  JoinLines(<< <<"-", "-", "-">>,
                     FrontmatterEntry(KeyFormat, noteFileFormat),
                     FrontmatterEntry(KeyThemeSlug, cleanLine(args.themeSlug)),
                     FrontmatterEntry(KeyThemeTitle, cleanLine(args.themeTitle)),
                     FrontmatterEntry(KeyImageStrategy, noteImageStrategy),
                     FrontmatterEntry(KeyExportedAt, args.exportedAt),
                     <<"-", "-", "-">>,
                     <<>>,
                     markdown,
                     <<>> >>)

NoParsedNote ==
    [ok |-> FALSE, format |-> <<>>, themeSlug |-> <<>>, themeTitle |-> <<>>,
     imageStrategy |-> <<>>, exportedAt |-> <<>>, markdown |-> <<>>]

\* parseThemeNoteFile: ok FALSE for a throw
parseThemeNoteFile(rawContent) ==
    LET parsed == parseSimpleFrontmatter(rawContent)
        format == cleanLine(DataValue(parsed.data, KeyFormat))
        themeSlug == cleanLine(DataValue(parsed.data, KeyThemeSlug))
        themeTitle == cleanLine(DataValue(parsed.data, KeyThemeTitle))
        imageStrategy == cleanLine(DataValue(parsed.data, KeyImageStrategy))
    IN  IF ~parsed.ok THEN NoParsedNote
        ELSE IF format # noteFileFormat THEN NoParsedNote
        ELSE IF themeSlug = <<>> THEN NoParsedNote
        ELSE IF themeTitle = <<>> THEN NoParsedNote
        ELSE IF imageStrategy # noteImageStrategy THEN NoParsedNote
        ELSE [ok |-> TRUE, format |-> format, themeSlug |-> themeSlug,
              themeTitle |-> themeTitle, imageStrategy |-> imageStrategy,
              exportedAt |-> cleanLine(DataValue(parsed.data, KeyExportedAt)),
              markdown |-> normalizeMarkdown(parsed.markdown)]

\* ---- inputs

ThemeSlugPool == { <<"t", "-", "1">>, <<" ", "a", " ", " ", "b", TAB>>, <<" ">> }
ThemeTitlePool == { <<"T", " ", DQ, "x", DQ>>, <<"a", BS, "b", ":", " ", "#", "c">>, <<"'", "q", "'">>, <<>> }
MarkdownTextPool == {
    <<"#", " ", "H", LF, LF, "T", "e", "x", "t">>,
    <<"a", " ", LF, "b", LF, LF, LF, LF, "c", " ">>,
    <<>>,
    <<CR, LF, " ", "a", CR, LF, "b", CR, LF>>,
    <<"a", CR, CR, LF, "b">>,
    <<"a", CR, " ", LF, "b">>,
    <<"x", LF, "-", "-", "-", LF, "y">>,
    <<"a", TAB, "b", " ", TAB>>,
    <<LF, LF, " ", "a", ":", TAB, LF>>,
    <<"-", " ", DQ, "q", DQ, LF, LF, " ", LF, LF, "z">> }
ExportedAtPool == { <<"2", "0", "2", "6", "-", "0", "2", "-", "2", "7", "T", "0", "0", ":", "0", "0", ":", "0", "0", ".", "0", "0", "0", "Z">> }

NoteInit ==
    /\ noteArgs \in [themeSlug : ThemeSlugPool, themeTitle : ThemeTitlePool,
                     markdown : MarkdownTextPool, exportedAt : ExportedAtPool]
    /\ notePc = "args"
    /\ noteContent = <<>>
    /\ noteParsed = NoParsedNote

NoteSerialize ==
    /\ notePc = "args"
    /\ noteContent' = serializeThemeNoteFile(noteArgs)
    /\ notePc' = "file"
    /\ UNCHANGED <<noteArgs, noteParsed>>

NoteParse ==
    /\ notePc = "file"
    /\ noteParsed' = parseThemeNoteFile(noteContent)
    /\ notePc' = "parsed"
    /\ UNCHANGED <<noteArgs, noteContent>>

\* ---- properties of the note file format

\* C15: for a themeSlug and themeTitle that are non-empty after cleaning, parsing the
\* serialized note succeeds and returns the format constant, the cleaned themeSlug and
\* themeTitle, and the normalized input markdown.
C15_NoteFileRoundTrip ==
    (notePc = "parsed" /\ cleanLine(noteArgs.themeSlug) # <<>>
        /\ cleanLine(noteArgs.themeTitle) # <<>>) =>
        /\ noteParsed.ok
        /\ noteParsed.format = noteFileFormat
        /\ noteParsed.themeSlug = cleanLine(noteArgs.themeSlug)
        /\ noteParsed.themeTitle = cleanLine(noteArgs.themeTitle)
        /\ noteParsed.markdown = normalizeMarkdown(noteArgs.markdown)

-----------------------------------------------------------------------------
(* The pomodoro store of store/usePomodoroStore.ts.  Time is counted in     *)
(* whole seconds, so Math.ceil((sessionEndAt - now) / 1000) is the          *)
(* difference of the two; a null sessionEndAt is 0, which no running        *)
(* session has.                                                             *)

MaxPomOps == 5
MaxAdvances == 2
MaxSessions == 6
SecondsPerMinute == 60
MinutesMin == 1
MinutesMax == 180
LongBreakEveryMin == 2
LongBreakEveryMax == 12
initialFocusMinutes == 25
initialShortBreakMinutes == 5
initialLongBreakMinutes == 15
initialLongBreakEvery == 4

NoSessionEnd == 0

\* value ?? fallback for an optional payload field
OrElse(optional, fallback) == IF optional = <<>> THEN fallback ELSE optional[1]

\* clampMinutes on a finite whole number
clampMinutes(value) == Min(MinutesMax, Max(MinutesMin, value))
\* clampLongBreakEvery on a finite whole number
clampLongBreakEvery(value) == Min(LongBreakEveryMax, Max(LongBreakEveryMin, value))

modeDurationSeconds(state, mode) ==
    IF mode = "focus" THEN state.focusMinutes * SecondsPerMinute
    ELSE IF mode = "short_break" THEN state.shortBreakMinutes * SecondsPerMinute
    ELSE state.longBreakMinutes * SecondsPerMinute

\* mutant: a long break is never due
nextModeNeverLong(mode, focusSessionsCompleted, longBreakEvery) ==
    IF mode # "focus" THEN "focus" ELSE "short_break"

nextModeAfterCompletion(mode, focusSessionsCompleted, longBreakEvery) ==
    IF mode # "focus" THEN "focus"
    ELSE IF focusSessionsCompleted % Max(2, longBreakEvery) = 0 THEN "long_break"
    ELSE "short_break"

InitialStore ==
    [focusMinutes |-> initialFocusMinutes,
     shortBreakMinutes |-> initialShortBreakMinutes,
     longBreakMinutes |-> initialLongBreakMinutes,
     longBreakEvery |-> initialLongBreakEvery,
     mode |-> "focus",
     isRunning |-> FALSE,
     remainingSeconds |-> initialFocusMinutes * SecondsPerMinute,
     phaseTotalSeconds |-> initialFocusMinutes * SecondsPerMinute,
     sessionEndAt |-> NoSessionEnd,
     focusSessionsCompleted |-> 0,
     completionCount |-> 0,
     lastCompletedMode |-> "",
     countedFocusSeconds |-> 0,
     pendingStudySeconds |-> 0]

Running(state) == state.isRunning /\ state.sessionEndAt # NoSessionEnd

\* the remainingSeconds the actions compute from the clock
RemainingNow(state, now) ==
    IF Running(state) THEN Max(0, state.sessionEndAt - now) ELSE state.remainingSeconds

\* the delta a focus phase adds to pendingStudySeconds
FocusDelta(state, remainingSeconds) ==
    Max(0, Max(0, state.phaseTotalSeconds - remainingSeconds) - state.countedFocusSeconds)

setDurations(state, payload) ==
    LET nextState ==
            [state EXCEPT
                !.focusMinutes = clampMinutes(OrElse(payload.focusMinutes, state.focusMinutes)),
                !.shortBreakMinutes =
                    clampMinutes(OrElse(payload.shortBreakMinutes, state.shortBreakMinutes)),
                !.longBreakMinutes =
                    clampMinutes(OrElse(payload.longBreakMinutes, state.longBreakMinutes)),
                !.longBreakEvery =
                    clampLongBreakEvery(OrElse(payload.longBreakEvery, state.longBreakEvery))]
        currentModeDuration == modeDurationSeconds(nextState, state.mode)
    IN  IF state.isRunning THEN nextState
        ELSE [nextState EXCEPT !.remainingSeconds = currentModeDuration,
                               !.phaseTotalSeconds = currentModeDuration]

setMode(state, mode, now) ==
    LET delta == IF state.mode = "focus" THEN FocusDelta(state, RemainingNow(state, now)) ELSE 0
        duration == modeDurationSeconds(state, mode)
    IN  [state EXCEPT !.mode = mode, !.isRunning = FALSE, !.sessionEndAt = NoSessionEnd,
                      !.remainingSeconds = duration, !.phaseTotalSeconds = duration,
                      !.countedFocusSeconds = 0,
                      !.pendingStudySeconds = @ + delta]

start(state, now) ==
    LET remainingSeconds == Max(1, state.remainingSeconds)
    IN  IF Running(state) THEN state
        ELSE [state EXCEPT !.isRunning = TRUE, !.remainingSeconds = remainingSeconds,
                           !.sessionEndAt = now + remainingSeconds]

\* mutant: pausing leaves the end of the session in place
pauseKeepsSessionEnd(state, now) ==
    LET remainingSeconds == Max(0, state.sessionEndAt - now)
    IN  IF ~state.isRunning \/ state.sessionEndAt = NoSessionEnd THEN state
        ELSE [state EXCEPT !.isRunning = FALSE, !.remainingSeconds = remainingSeconds]

pause(state, now) ==
    LET remainingSeconds == Max(0, state.sessionEndAt - now)
        elapsed == Max(0, state.phaseTotalSeconds - remainingSeconds)
        focus == state.mode = "focus"
    IN  IF ~state.isRunning \/ state.sessionEndAt = NoSessionEnd THEN state
        ELSE [state EXCEPT
                !.isRunning = FALSE, !.sessionEndAt = NoSessionEnd,
                !.remainingSeconds = remainingSeconds,
                !.pendingStudySeconds =
                    IF focus THEN @ + Max(0, elapsed - state.countedFocusSeconds) ELSE @,
                !.countedFocusSeconds = IF focus THEN elapsed ELSE @]

resetCurrent(state, now) ==
    LET delta == IF state.mode = "focus" THEN FocusDelta(state, RemainingNow(state, now)) ELSE 0
        duration == modeDurationSeconds(state, state.mode)
    IN  [state EXCEPT !.isRunning = FALSE, !.sessionEndAt = NoSessionEnd,
                      !.remainingSeconds = duration, !.phaseTotalSeconds = duration,
                      !.countedFocusSeconds = 0,
                      !.pendingStudySeconds = @ + delta]

skipPhase(state, now) ==
    LET focus == state.mode = "focus"
        delta == IF focus THEN FocusDelta(state, RemainingNow(state, now)) ELSE 0
        nextFocusSessionsCompleted == state.focusSessionsCompleted + (IF focus THEN 1 ELSE 0)
        mode == nextModeAfterCompletion(state.mode, nextFocusSessionsCompleted,
                                        state.longBreakEvery)
        duration == modeDurationSeconds(state, mode)
    IN  [state EXCEPT !.mode = mode,
                      !.focusSessionsCompleted = nextFocusSessionsCompleted,
                      !.remainingSeconds = duration, !.phaseTotalSeconds = duration,
                      !.countedFocusSeconds = 0,
                      !.pendingStudySeconds = @ + delta,
                      !.sessionEndAt = IF state.isRunning THEN now + duration ELSE NoSessionEnd]

completeCurrentPhase(state, now) ==
    LET focus == state.mode = "focus"
        delta == IF focus THEN Max(0, state.phaseTotalSeconds - state.countedFocusSeconds) ELSE 0
        nextFocusSessionsCompleted == state.focusSessionsCompleted + (IF focus THEN 1 ELSE 0)
        mode == nextModeAfterCompletion(state.mode, nextFocusSessionsCompleted,
                                        state.longBreakEvery)
        duration == modeDurationSeconds(state, mode)
    IN  IF ~state.isRunning THEN state
        ELSE [state EXCEPT !.mode = mode,
                           !.focusSessionsCompleted = nextFocusSessionsCompleted,
                           !.completionCount = @ + 1,
                           !.lastCompletedMode = state.mode,
                           !.remainingSeconds = duration, !.phaseTotalSeconds = duration,
                           !.countedFocusSeconds = 0,
                           !.pendingStudySeconds = @ + delta,
                           !.isRunning = TRUE,
                           !.sessionEndAt = now + duration]

\* ---- inputs and steps of the store

Absent == <<>>
DurationsPayload(focus, short, long, every) ==
    [focusMinutes |-> focus, shortBreakMinutes |-> short, longBreakMinutes |-> long,
     longBreakEvery |-> every]

DurationsPool == {
    DurationsPayload(Absent, Absent, Absent, Absent),
    DurationsPayload(<<1>>, Absent, Absent, Absent),
    DurationsPayload(<<0>>, <<1>>, <<1>>, <<1>>),
    DurationsPayload(<<200>>, Absent, Absent, <<13>>) }

ModePool == {"focus", "short_break", "long_break"}
AdvancePool == {1, 10}

PomInit ==
    /\ pomodoro = InitialStore
    /\ clockNow = 1
    /\ pomOps = 0
    /\ pomAdvances = 0
    /\ focusElapsed = 0
    /\ creditedSeconds = 0
    /\ lastPomAction = ""

\* one call of a store action that returns the state next
StoreStep(name, next) ==
    /\ pomOps < MaxPomOps
    /\ next.focusSessionsCompleted <= MaxSessions
    /\ pomodoro' = next
    /\ pomOps' = pomOps + 1
    /\ creditedSeconds' =
          creditedSeconds + (next.pendingStudySeconds - pomodoro.pendingStudySeconds)
    /\ lastPomAction' = name
    /\ UNCHANGED <<clockNow, pomAdvances, focusElapsed>>

PomSetDurations(payload) == StoreStep("setDurations", setDurations(pomodoro, payload))
PomSetMode(mode) == StoreStep("setMode", setMode(pomodoro, mode, clockNow))
PomStart == StoreStep("start", start(pomodoro, clockNow))
PomPause == StoreStep("pause", pause(pomodoro, clockNow))
PomResetCurrent == StoreStep("resetCurrent", resetCurrent(pomodoro, clockNow))
PomSkipPhase == StoreStep("skipPhase", skipPhase(pomodoro, clockNow))

\* the effect of PomodoroTimer that completes a phase whose end has come
PomCompleteCurrentPhase ==
    /\ Running(pomodoro) /\ pomodoro.sessionEndAt <= clockNow
    /\ StoreStep("completeCurrentPhase", completeCurrentPhase(pomodoro, clockNow))

\* time passes while the timer runs, up to the end of the session
PomAdvance(seconds) ==
    /\ Running(pomodoro) /\ pomAdvances < MaxAdvances
    /\ seconds >= 1 /\ clockNow + seconds <= pomodoro.sessionEndAt
    /\ clockNow' = clockNow + seconds
    /\ pomAdvances' = pomAdvances + 1
    /\ focusElapsed' = focusElapsed + (IF pomodoro.mode = "focus" THEN seconds ELSE 0)
    /\ UNCHANGED <<pomodoro, pomOps, creditedSeconds, lastPomAction>>

\* ---- properties of the pomodoro store

\* C22: the seconds the timer actions added to pendingStudySeconds are the seconds that
\* passed in running focus phases: once the timer has been stopped by an action that
\* credits the phase, every elapsed focus second has been credited exactly once.
C22_FocusSecondsCreditedOnce ==
    (~Running(pomodoro) /\ lastPomAction \in {"pause", "setMode", "resetCurrent", "skipPhase"})
        => creditedSeconds = focusElapsed

\* C29: a focus phase that ends through completeCurrentPhase or skipPhase adds 1 to
\* focusSessionsCompleted and leads to long_break when the new count is a multiple of
\* longBreakEvery, to short_break otherwise; a break that ends leads to focus and
\* leaves the count alone.
C29_NextModeAfterPhaseEnd ==
    [][(pomOps' = pomOps + 1 /\ lastPomAction' \in {"skipPhase", "completeCurrentPhase"}) =>
          IF pomodoro.mode = "focus"
          THEN /\ pomodoro'.focusSessionsCompleted = pomodoro.focusSessionsCompleted + 1
               /\ pomodoro'.mode =
                     IF pomodoro'.focusSessionsCompleted % pomodoro.longBreakEvery = 0
                     THEN "long_break" ELSE "short_break"
          ELSE /\ pomodoro'.focusSessionsCompleted = pomodoro.focusSessionsCompleted
               /\ pomodoro'.mode = "focus"]_vars

\* a focus phase ran to its end and a long break followed
C29_Witness ==
    /\ lastPomAction = "completeCurrentPhase"
    /\ pomodoro.lastCompletedMode = "focus"
    /\ pomodoro.mode = "long_break"
    /\ pomodoro.focusSessionsCompleted > 0

\* C30: isRunning is true exactly when sessionEndAt is not null.
C30_RunningIffSessionEnd ==
    pomodoro.isRunning <=> pomodoro.sessionEndAt # NoSessionEnd

\* a running timer was paused
C30_Witness ==
    /\ lastPomAction = "pause"
    /\ ~pomodoro.isRunning
    /\ pomodoro.remainingSeconds < pomodoro.phaseTotalSeconds

-----------------------------------------------------------------------------
(* The studyTotals table with getStudyTotal and addStudySeconds of          *)
(* convex/study.ts, and the effect of PomodoroTimer.tsx that sends          *)
(* pendingStudySeconds to it.  updatedAt is left out.                       *)

MaxTotalsOps == 3

TotalsRow(id, userKey, totalStudySeconds) ==
    [id |-> id, userKey |-> userKey, totalStudySeconds |-> totalStudySeconds]

RECURSIVE sumStudyTotalSeconds(_)
sumStudyTotalSeconds(rows) ==
    IF rows = {} THEN 0
    ELSE LET row == CHOOSE r \in rows : TRUE
         IN  row.totalStudySeconds + sumStudyTotalSeconds(rows \ {row})

\* .withIndex('by_user_key', (q) => q.eq('userKey', userKey)).first(): {} for null
FirstTotalsRow(rows, userKey) ==
    LET own == { r \in rows : r.userKey = userKey }
    IN  { r \in own : \A o \in own : r.id <= o.id }

\* getStudyTotal(...).totalStudySeconds
getStudyTotal(rows, userKey) ==
    IF FirstTotalsRow(rows, userKey) # {}
    THEN (CHOOSE r \in FirstTotalsRow(rows, userKey) : TRUE).totalStudySeconds
    ELSE sumStudyTotalSeconds(rows)

NewTotalsId(rows) ==
    IF rows = {} THEN 1 ELSE 1 + (CHOOSE i \in { r.id : r \in rows } : \A r \in rows : r.id <= i)

\* the table after addStudySeconds({userKey, seconds}), seconds a whole number
addStudySeconds(rows, userKey, secondsArg) ==
    LET seconds == Max(0, secondsArg)
        existing == FirstTotalsRow(rows, userKey)
        legacyRows == rows
    IN  IF seconds = 0 THEN rows
        ELSE IF existing # {}
        THEN { IF r \in existing
               THEN [r EXCEPT !.totalStudySeconds = @ + seconds] ELSE r : r \in rows }
        ELSE (rows \cup { TotalsRow(NewTotalsId(rows), userKey,
                                    sumStudyTotalSeconds(legacyRows) + seconds) })
                \ legacyRows

TotalsUserKeys == {"u1", "u2"}
SecondsPool == {0, 2, 5}

TotalsPool == {
    {},
    { TotalsRow(1, "u1", 3) },
    { TotalsRow(1, "u2", 7) },
    { TotalsRow(1, "u1", 3), TotalsRow(2, "u2", 7) } }

NoTotalsCall == [userKey |-> "", seconds |-> 0]

TotalsInit ==
    /\ studyTotals \in TotalsPool
    /\ serverBase = 0
    /\ totalsOps = 0
    /\ lastTotalsCall = NoTotalsCall
    /\ isSyncingRef = FALSE /\ syncPc = "idle" /\ syncChunk = 0 /\ effectSeenPending = -1

\* one call of the mutation addStudySeconds
AddStudySeconds(userKey, seconds) ==
    /\ totalsOps < MaxTotalsOps
    /\ studyTotals' = addStudySeconds(studyTotals, userKey, seconds)
    /\ totalsOps' = totalsOps + 1
    /\ lastTotalsCall' = [userKey |-> userKey, seconds |-> seconds]
    /\ UNCHANGED <<isSyncingRef, syncPc, syncChunk, effectSeenPending, serverBase>>

\* ---- the sync effect

SyncUser == "u1"

consumePendingStudySeconds(state) == [state EXCEPT !.pendingStudySeconds = 0]

\* mutant: a failed chunk is not put back
restoreNothing(state, seconds) == state

restorePendingStudySeconds(state, seconds) ==
    [state EXCEPT !.pendingStudySeconds = @ + Max(0, seconds)]

SyncInit ==
    /\ studyTotals \in TotalsPool
    /\ serverBase = getStudyTotal(studyTotals, SyncUser)
    /\ totalsOps = MaxTotalsOps
    /\ lastTotalsCall = NoTotalsCall
    /\ isSyncingRef = FALSE /\ syncPc = "idle" /\ syncChunk = 0 /\ effectSeenPending = -1

SyncRest == UNCHANGED <<clockNow, pomOps, pomAdvances, focusElapsed, creditedSeconds,
                        lastPomAction, serverBase, totalsOps, lastTotalsCall>>

\* useEffect(..., [..., pendingStudySeconds, ...]): runs after a render in which
\* pendingStudySeconds differs from the render the effect ran in before;
\* the render that follows consumePendingStudySeconds runs the effect once more, with
\* nothing pending, before any reply can arrive: that run is part of this step
SyncEffect ==
    /\ effectSeenPending # pomodoro.pendingStudySeconds
    /\ IF pomodoro.pendingStudySeconds = 0 \/ isSyncingRef
       THEN /\ effectSeenPending' = pomodoro.pendingStudySeconds
            /\ UNCHANGED <<pomodoro, isSyncingRef, syncPc, syncChunk>>
       ELSE /\ pomodoro' = consumePendingStudySeconds(pomodoro)
            /\ syncChunk' = pomodoro.pendingStudySeconds
            /\ isSyncingRef' = TRUE
            /\ syncPc' = "sent"
            /\ effectSeenPending' = 0
    /\ UNCHANGED studyTotals
    /\ SyncRest

\* the server runs the mutation and the promise resolves
ServerApply ==
    /\ syncPc = "sent"
    /\ studyTotals' = addStudySeconds(studyTotals, SyncUser, syncChunk)
    /\ syncPc' = "applied"
    /\ UNCHANGED <<pomodoro, isSyncingRef, syncChunk, effectSeenPending>>
    /\ SyncRest

\* the mutation fails and the promise rejects
ServerReject ==
    /\ syncPc = "sent"
    /\ syncPc' = "rejected"
    /\ UNCHANGED <<pomodoro, isSyncingRef, syncChunk, effectSeenPending, studyTotals>>
    /\ SyncRest

\* .catch(() => { restorePendingStudySeconds(chunk) })
SyncCatch ==
    /\ syncPc = "rejected"
    /\ pomodoro' = restorePendingStudySeconds(pomodoro, syncChunk)
    /\ syncPc' = "restored"
    /\ UNCHANGED <<isSyncingRef, syncChunk, effectSeenPending, studyTotals>>
    /\ SyncRest

\* .finally(() => { isSyncingRef.current = false })
SyncFinally ==
    /\ syncPc \in {"applied", "restored"}
    /\ isSyncingRef' = FALSE
    /\ syncPc' = "idle"
    /\ syncChunk' = 0
    /\ UNCHANGED <<pomodoro, effectSeenPending, studyTotals>>
    /\ SyncRest

\* ---- properties of the sync and of the table

\* the chunk of a request the server has neither applied nor handed back
InFlight == IF syncPc \in {"sent", "rejected"} THEN syncChunk ELSE 0

\* C23: what the server reports as the user's total, plus pendingStudySeconds, plus the
\* chunk in flight, is what it reported at the start plus the seconds the timer
\* credited; in particular a failed request puts back exactly its chunk.
C23_NoSecondLostOrDoubled ==
    getStudyTotal(studyTotals, SyncUser) + pomodoro.pendingStudySeconds + InFlight
        = serverBase + creditedSeconds

\* a failed chunk was put back next to seconds credited while it was in flight
C23_Witness ==
    /\ syncPc = "restored"
    /\ syncChunk > 0
    /\ pomodoro.pendingStudySeconds > syncChunk

\* C24: pending seconds are eventually taken into a request, with no further timer
\* action needed.
C24_PendingEventuallySent ==
    (pomodoro.pendingStudySeconds > 0) ~> (pomodoro.pendingStudySeconds = 0)

TotalsRowsOf(rows, userKey) == { r \in rows : r.userKey = userKey }

\* C25: an addStudySeconds call made with one user key leaves the rows of every other
\* user key, and what getStudyTotal returns for it, as they were.
C25_TotalsIsolatedPerUser ==
    [][\A other \in TotalsUserKeys :
          (totalsOps' = totalsOps + 1 /\ lastTotalsCall'.userKey # other) =>
              /\ TotalsRowsOf(studyTotals', other) = TotalsRowsOf(studyTotals, other)
              /\ getStudyTotal(studyTotals', other) = getStudyTotal(studyTotals, other)]_vars

-----------------------------------------------------------------------------
(* run() of scripts/import-study-data.ts with beginImportRun and           *)
(* finishImportRun of convex/study.ts.  Every awaited call either returns  *)
(* or throws; an error is the name of the call that threw.  The row of the *)
(* import key is its status and its stats.                                 *)

MaxImages == 2
MaxNoteThemes == 2

NoError == ""
NoImportRun == [status |-> "none", stats |-> ""]

\* beginImportRun: patch the row of the key, or insert it
beginImportRun(existing) == [status |-> "running", stats |-> ""]

\* finishImportRun: patch the row of the key; null without a row
finishImportRun(existing, status, stats) ==
    IF existing = NoImportRun THEN existing ELSE [status |-> status, stats |-> stats]

\* rows a key can have before run(): none, or the row a previous run left
ImportRunPool ==
    { NoImportRun,
      [status |-> "completed", stats |-> "stats"],
      [status |-> "failed", stats |-> "pdf"] }

RunSteps == {"pdf", "upsert", "docx", "upload", "replace"}

RunInit ==
    /\ runPc = "begin"
    /\ importRun \in ImportRunPool
    /\ imagesLeft \in 0..MaxImages
    /\ noteThemesLeft \in 0..MaxNoteThemes
    /\ runError = NoError
    /\ runRecorded = FALSE
    /\ runRejection = NoError

\* where the try block goes on after the DOCX parse and after each loop pass
AfterLoops(images, noteThemes) ==
    IF images > 0 THEN "upload" ELSE IF noteThemes > 0 THEN "replace" ELSE "finish"

\* await client.mutation(api.study.beginImportRun, ...) returns
RunBegin ==
    /\ runPc = "begin"
    /\ importRun' = beginImportRun(importRun)
    /\ runRecorded' = TRUE
    /\ runPc' = "pdf"
    /\ UNCHANGED <<imagesLeft, noteThemesLeft, runError, runRejection>>

\* await client.mutation(api.study.beginImportRun, ...) throws, outside the try block
RunBeginThrows ==
    /\ runPc = "begin"
    /\ runPc' = "rejected"
    /\ runRejection' = "begin"
    /\ UNCHANGED <<importRun, imagesLeft, noteThemesLeft, runError, runRecorded>>

\* extractCurriculumFromPdf returns
RunParsePdf ==
    /\ runPc = "pdf"
    /\ runPc' = "upsert"
    /\ UNCHANGED <<importRun, imagesLeft, noteThemesLeft, runError, runRecorded, runRejection>>

\* the importCurriculum mutation returns
RunUpsert ==
    /\ runPc = "upsert"
    /\ runPc' = "docx"
    /\ UNCHANGED <<importRun, imagesLeft, noteThemesLeft, runError, runRecorded, runRejection>>

\* extractNotesFromDocx returns
RunParseDocx ==
    /\ runPc = "docx"
    /\ runPc' = AfterLoops(imagesLeft, noteThemesLeft)
    /\ UNCHANGED <<importRun, imagesLeft, noteThemesLeft, runError, runRecorded, runRejection>>

\* one pass of the upload loop: uploadImage returns
RunUploadImage ==
    /\ runPc = "upload"
    /\ imagesLeft' = imagesLeft - 1
    /\ runPc' = AfterLoops(imagesLeft - 1, noteThemesLeft)
    /\ UNCHANGED <<importRun, noteThemesLeft, runError, runRecorded, runRejection>>

\* one pass of the replace loop: the replaceThemeNoteFromDocx mutation returns
RunReplaceNote ==
    /\ runPc = "replace"
    /\ noteThemesLeft' = noteThemesLeft - 1
    /\ runPc' = AfterLoops(0, noteThemesLeft - 1)
    /\ UNCHANGED <<importRun, imagesLeft, runError, runRecorded, runRejection>>

\* a call of the try block throws: control goes to the catch block
RunThrows ==
    /\ runPc \in RunSteps \cup {"finish"}
    /\ runError' = runPc
    /\ runPc' = "catch"
    /\ UNCHANGED <<importRun, imagesLeft, noteThemesLeft, runRecorded, runRejection>>

\* finishImportRun with status 'completed' returns; run() resolves
RunFinishCompleted ==
    /\ runPc = "finish"
    /\ importRun' = finishImportRun(importRun, "completed", "stats")
    /\ runPc' = "resolved"
    /\ UNCHANGED <<imagesLeft, noteThemesLeft, runError, runRecorded, runRejection>>

\* the catch block: finishImportRun with status 'failed' returns, then throw error
RunFinishFailed ==
    /\ runPc = "catch"
    /\ importRun' = finishImportRun(importRun, "failed", runError)
    /\ runPc' = "rejected"
    /\ runRejection' = runError
    /\ UNCHANGED <<imagesLeft, noteThemesLeft, runError, runRecorded>>

\* the catch block: finishImportRun with status 'failed' throws, and run() rejects with that
RunFinishFailedThrows ==
    /\ runPc = "catch"
    /\ runPc' = "rejected"
    /\ runRejection' = "finishFailed"
    /\ UNCHANGED <<importRun, imagesLeft, noteThemesLeft, runError, runRecorded>>

RunSettled == runPc \in {"resolved", "rejected"}

\* C26: once run() has settled after beginImportRun recorded the run, the row of the key
\* is 'completed' exactly when every step succeeded, and otherwise 'failed' with the
\* error's message, the error being the one run() rejects with; it is never 'running'.
C26_TerminalStatusRecorded ==
    (RunSettled /\ runRecorded) =>
        /\ importRun.status \in {"completed", "failed"}
        /\ importRun.status = "completed" <=> runError \notin RunSteps
        /\ importRun.status = "failed" =>
              /\ importRun.stats = runError
              /\ runRejection = runError

-----------------------------------------------------------------------------
(* Specifications: one per part of the program, the other parts at rest.   *)

PdfIdle ==
    /\ pdfLines = <<>> /\ pdfPc = "idle" /\ courses = <<>> /\ currentCourse = 0
    /\ pendingTheme = NoPending /\ globalOrder = 1 /\ pendingStart = 0 /\ themeStart = <<>>

DocxIdle ==
    /\ themeLookup = <<>> /\ docxPc = "idle" /\ nodesRead = 0 /\ currentThemeId = NoTheme
    /\ blocksByTheme = [t \in ThemeIds |-> <<>>] /\ orderByTheme = [t \in ThemeIds |-> 0]
    /\ usedImageTargets = {} /\ unmatchedHeadings = <<>> /\ lastNode = NoNode
    /\ lastEmitted = <<>> /\ resolvedSeq = <<>> /\ unmatchedSince = FALSE
    /\ zipFiles = {} /\ imageBytesByTarget = <<>>

DbIdle ==
    /\ dbCourses = {} /\ dbThemes = {} /\ dbNoteBlocks = {} /\ dbThemeNotes = {}
    /\ dbProgressRows = {}
    /\ nextId = 1 /\ dbOps = MaxDbOps /\ lastOp = NoOp /\ lastReplace = {}

ScoreIdle == scoreA = <<>> /\ scoreB = <<>> /\ scoreOut = <<0, 1>>

ResolverIdle == resolverThemes = <<>> /\ resolverHeading = <<>> /\ resolverOut = NotCalled

ProgressIdle ==
    /\ themeSubthemes = 0 /\ dbProgress = {} /\ progressOps = MaxProgressOps
    /\ lastProgressArgs = NoProgressArgs

NoteIdle ==
    /\ noteArgs = [themeSlug |-> <<>>, themeTitle |-> <<>>, markdown |-> <<>>,
                   exportedAt |-> <<>>]
    /\ notePc = "idle" /\ noteContent = <<>> /\ noteParsed = NoParsedNote

PomIdle ==
    /\ pomodoro = InitialStore /\ clockNow = 0 /\ pomOps = MaxPomOps
    /\ pomAdvances = MaxAdvances
    /\ focusElapsed = 0 /\ creditedSeconds = 0 /\ lastPomAction = ""

ImportIdle ==
    /\ runPc = "idle" /\ importRun = NoImportRun /\ imagesLeft = 0 /\ noteThemesLeft = 0
    /\ runError = NoError /\ runRecorded = FALSE /\ runRejection = NoError

SyncIdle ==
    /\ isSyncingRef = FALSE /\ syncPc = "idle" /\ syncChunk = 0 /\ effectSeenPending = -1
    /\ studyTotals = {} /\ serverBase = 0 /\ totalsOps = MaxTotalsOps
    /\ lastTotalsCall = NoTotalsCall

InitPdf == PdfInit /\ DocxIdle /\ DbIdle /\ ScoreIdle /\ ResolverIdle /\ ProgressIdle /\ NoteIdle /\ PomIdle /\ SyncIdle /\ ImportIdle
PdfFrame == UNCHANGED <<docxVars, dbVars, scoreVars, resolverVars, progressVars, noteVars, pomVars, syncVars, importVars>>
NextPdf ==
    \/ \E raw \in LinePool : PdfSkipLine(raw) /\ PdfFrame
    \/ \E raw \in LinePool : PdfCourseHeading(raw) /\ PdfFrame
    \/ \E raw \in LinePool : PdfThemeStart(raw) /\ PdfFrame
    \/ \E raw \in LinePool : PdfContinuation(raw) /\ PdfFrame
    \/ PdfEnd /\ PdfFrame
SpecPdf == InitPdf /\ [][NextPdf]_vars

InitDocx == DocxInit /\ PdfIdle /\ DbIdle /\ ScoreIdle /\ ResolverIdle /\ ProgressIdle /\ NoteIdle /\ PomIdle /\ SyncIdle /\ ImportIdle
DocxFrame == UNCHANGED <<pdfVars, dbVars, scoreVars, resolverVars, progressVars, noteVars, pomVars, syncVars, importVars>>
NextDocx ==
    \/ \E node \in NodePool : DocxHeadingMatched(node) /\ DocxFrame
    \/ \E node \in NodePool : DocxHeadingUnmatched(node) /\ DocxFrame
    \/ \E node \in NodePool : DocxSkipParagraph(node) /\ DocxFrame
    \/ \E node \in NodePool : DocxParagraph(node) /\ DocxFrame
    \/ \E node \in NodePool : DocxTable(node) /\ DocxFrame
    \/ DocxEnd /\ DocxFrame
SpecDocx == InitDocx /\ [][NextDocx]_vars

InitDb == DbInit /\ PdfIdle /\ DocxIdle /\ ScoreIdle /\ ResolverIdle /\ ProgressIdle /\ NoteIdle /\ PomIdle /\ SyncIdle /\ ImportIdle
DbFrame == UNCHANGED <<pdfVars, docxVars, scoreVars, resolverVars, progressVars, noteVars, pomVars, syncVars, importVars>>
NextDb ==
    \/ \E incoming \in CurriculumPool : ImportCurriculum(incoming) /\ DbFrame
    \/ \E themeId \in ThemeIdArgs, blocks \in BlockListPool :
          ReplaceThemeNoteBlocks(themeId, blocks) /\ DbFrame
    \/ \E blockId \in BlockIdArgs, text \in UserTextPool :
          UpdateNoteBlockText(blockId, text) /\ DbFrame
    \/ \E themeId \in ThemeIdArgs, markdown \in MarkdownPool :
          SaveThemeNote(themeId, markdown) /\ DbFrame
    \/ \E themeId \in ThemeIdArgs, markdown \in MarkdownPool :
          ReplaceThemeNoteFromDocx(themeId, markdown) /\ DbFrame
SpecDb == InitDb /\ [][NextDb]_vars

InitCurriculum ==
    CurriculumInit /\ PdfIdle /\ DocxIdle /\ ScoreIdle /\ ResolverIdle /\ ProgressIdle
        /\ NoteIdle /\ PomIdle /\ SyncIdle /\ ImportIdle
NextCurriculum ==
    \/ \E incoming \in CurriculumArgs : ImportCurriculum(incoming) /\ DbFrame
    \/ \E userKey \in UserKeys, themeId \in ThemeIdArgs, status \in ProgressStatusPool :
          SetThemeProgressFor(userKey, themeId, status) /\ DbFrame
    \/ \E themeId \in ThemeIdArgs, blocks \in BlockListPool :
          ReplaceThemeNoteBlocks(themeId, blocks) /\ DbFrame
SpecCurriculum == InitCurriculum /\ [][NextCurriculum]_vars

InitProgress == ProgressInit /\ PdfIdle /\ DocxIdle /\ DbIdle /\ ScoreIdle /\ ResolverIdle /\ NoteIdle /\ PomIdle /\ SyncIdle /\ ImportIdle
ProgressFrame == UNCHANGED <<pdfVars, docxVars, dbVars, scoreVars, resolverVars, noteVars, pomVars, syncVars, importVars>>
NextProgress ==
    \/ \E args \in ProgressArgs : SetThemeProgress(args) /\ ProgressFrame
    \/ \E count \in SubthemeCountPool : UpdateThemeSubthemes(count) /\ ProgressFrame
SpecProgress == InitProgress /\ [][NextProgress]_vars

InitNote ==
    NoteInit /\ PdfIdle /\ DocxIdle /\ DbIdle /\ ScoreIdle /\ ResolverIdle /\ ProgressIdle /\ PomIdle /\ SyncIdle /\ ImportIdle
NoteFrame == UNCHANGED <<pdfVars, docxVars, dbVars, scoreVars, resolverVars, progressVars, pomVars, syncVars, importVars>>
NextNote ==
    \/ NoteSerialize /\ NoteFrame
    \/ NoteParse /\ NoteFrame
SpecNote == InitNote /\ [][NextNote]_vars

InitResolver ==
    ResolverInit /\ PdfIdle /\ DocxIdle /\ DbIdle /\ ScoreIdle /\ ProgressIdle /\ NoteIdle /\ PomIdle /\ SyncIdle /\ ImportIdle
ResolverFrame == UNCHANGED <<pdfVars, docxVars, dbVars, scoreVars, progressVars, noteVars, pomVars, syncVars, importVars>>
NextResolver == ResolveCall /\ ResolverFrame
SpecResolver == InitResolver /\ [][NextResolver]_vars

InitPomodoro ==
    PomInit /\ PdfIdle /\ DocxIdle /\ DbIdle /\ ScoreIdle /\ ResolverIdle /\ ProgressIdle
        /\ NoteIdle /\ SyncIdle /\ ImportIdle
PomFrame ==
    UNCHANGED <<pdfVars, docxVars, dbVars, scoreVars, resolverVars, progressVars, noteVars, syncVars, importVars>>
NextPomodoro ==
    \/ (\E payload \in DurationsPool : PomSetDurations(payload)) /\ PomFrame
    \/ (\E mode \in ModePool : PomSetMode(mode)) /\ PomFrame
    \/ PomStart /\ PomFrame
    \/ PomPause /\ PomFrame
    \/ PomResetCurrent /\ PomFrame
    \/ PomSkipPhase /\ PomFrame
    \/ PomCompleteCurrentPhase /\ PomFrame
    \/ (\E seconds \in AdvancePool \cup {pomodoro.sessionEndAt - clockNow} :
            PomAdvance(seconds)) /\ PomFrame
SpecPomodoro == InitPomodoro /\ [][NextPomodoro]_vars

InitTotals ==
    TotalsInit /\ PdfIdle /\ DocxIdle /\ DbIdle /\ ScoreIdle /\ ResolverIdle /\ ProgressIdle
        /\ NoteIdle /\ PomIdle /\ ImportIdle
TotalsFrame ==
    UNCHANGED <<pdfVars, docxVars, dbVars, scoreVars, resolverVars, progressVars, noteVars,
                pomVars, importVars>>
NextTotals ==
    (\E userKey \in TotalsUserKeys, seconds \in SecondsPool : AddStudySeconds(userKey, seconds))
        /\ TotalsFrame
SpecTotals == InitTotals /\ [][NextTotals]_vars

InitSync ==
    PomInit /\ SyncInit /\ PdfIdle /\ DocxIdle /\ DbIdle /\ ScoreIdle /\ ResolverIdle
        /\ ProgressIdle /\ NoteIdle /\ ImportIdle
SyncFrame ==
    UNCHANGED <<pdfVars, docxVars, dbVars, scoreVars, resolverVars, progressVars, noteVars, importVars>>
NextSync ==
    \/ PomStart /\ PomFrame
    \/ PomPause /\ PomFrame
    \/ (\E seconds \in AdvancePool \cup {pomodoro.sessionEndAt - clockNow} :
            PomAdvance(seconds)) /\ PomFrame
    \/ SyncEffect /\ SyncFrame
    \/ ServerApply /\ SyncFrame
    \/ ServerReject /\ SyncFrame
    \/ SyncCatch /\ SyncFrame
    \/ SyncFinally /\ SyncFrame
SpecSync == InitSync /\ [][NextSync]_vars

\* the effect runs after the render that follows a change, every request settles and
\* its handlers run; the user need not act
SpecSyncLive ==
    /\ SpecSync
    /\ WF_vars(SyncEffect /\ SyncFrame)
    /\ WF_vars((ServerApply \/ ServerReject) /\ SyncFrame)
    /\ WF_vars(SyncCatch /\ SyncFrame)
    /\ WF_vars(SyncFinally /\ SyncFrame)

InitImport ==
    RunInit /\ PdfIdle /\ DocxIdle /\ DbIdle /\ ScoreIdle /\ ResolverIdle /\ ProgressIdle
        /\ NoteIdle /\ PomIdle /\ SyncIdle
ImportFrame ==
    UNCHANGED <<pdfVars, docxVars, dbVars, scoreVars, resolverVars, progressVars, noteVars,
                pomVars, syncVars>>
NextImport ==
    \/ RunBegin /\ ImportFrame
    \/ RunBeginThrows /\ ImportFrame
    \/ RunParsePdf /\ ImportFrame
    \/ RunUpsert /\ ImportFrame
    \/ RunParseDocx /\ ImportFrame
    \/ RunUploadImage /\ ImportFrame
    \/ RunReplaceNote /\ ImportFrame
    \/ RunThrows /\ ImportFrame
    \/ RunFinishCompleted /\ ImportFrame
    \/ RunFinishFailed /\ ImportFrame
    \/ RunFinishFailedThrows /\ ImportFrame
SpecImport == InitImport /\ [][NextImport]_vars

InitScore == ScoreInit /\ PdfIdle /\ DocxIdle /\ DbIdle /\ ResolverIdle /\ ProgressIdle /\ NoteIdle /\ PomIdle /\ SyncIdle /\ ImportIdle
ScoreFrame == UNCHANGED <<pdfVars, docxVars, dbVars, resolverVars, progressVars, noteVars, pomVars, syncVars, importVars>>
NextScore == ScoreCall /\ ScoreFrame
SpecScore == InitScore /\ [][NextScore]_vars

====
